---- MODULE Spec2Model ----
(***************************************************************************)
(* Model of the pledge / reverse-request settlement engine of app.py.      *)
(*                                                                         *)
(* The persisted tables are the state.  Amounts are whole units (the code  *)
(* accepts any float >= 1), time is a counter of clock ticks, and row ids  *)
(* (uuid4 in the code) are the position of the row in its table.  Titles,  *)
(* descriptions and the created_at stamps of pledges, locks and ledger     *)
(* entries are left out: no handler branches on them.  The pledges of a    *)
(* deal are kept newest first, the order of the relationship               *)
(* (order_by desc(created_at)).                                            *)
(***************************************************************************)
EXTENDS Integers, Sequences, FiniteSets, TLC

\* ------------------------------------------------------------------ bounds
MaxTime == 1
MaxTarget == 3
MaxAmount == 2
MaxDeals == 1
MaxPledges == 2
MaxBidTime == 2
MaxBids == 4

\* ------------------------------------------------------------ value spaces
Users == {"alice", "bob"}
NoUser == "anonymous"
Actors == Users \cup {NoUser}
ADMIN_USERNAME == "bob"
GroupOwner == "alice"
TheGroup == "g1"
NoGroup == "null"
GroupRefs == {TheGroup, "gx", NoGroup}
AudienceModes == {"open", "group", "specific"}
DealTypes == {"thread", "reverse"}
Workers == {"w1", "w2"}

VARIABLES
    now,             \* time.time() / _now_ms()
    memberships,     \* pc_group_memberships of TheGroup: user -> status
    threads,         \* pc_threads with their pledges and targets: id -> row
    threadCount,     \* number of threads ever created (ids are fresh)
    requests,        \* pc_reverse_requests with their bids, pledges and targets
    requestCount,    \* number of reverse requests ever created
    dealLocks,       \* pc_deal_locks: sequence of rows
    balanceEntries,  \* pc_balance_entries: sequence of rows
    sessions,        \* the requests in flight: worker -> position and open session
    probe            \* argument and result of a helper called on its own

db == <<memberships, threads, threadCount, requests, requestCount, dealLocks, balanceEntries>>
vars == <<now, db, sessions, probe>>
aux == <<sessions, probe>>
threadTables == <<threads, threadCount>>
reverseTables == <<requests, requestCount>>

\* ----------------------------------------------------------------- helpers
RECURSIVE SumAmounts(_)
SumAmounts(pledges) ==
    IF pledges = <<>> THEN 0
    ELSE Head(pledges).amount + SumAmounts(Tail(pledges))

\* _is_admin
is_admin(user) == user # NoUser /\ user = ADMIN_USERNAME

\* Variant of _thread_status that looks at the deadline before the pledged total
thread_status_deadline_first(thread, pledged_total) ==
    IF thread.committed_current THEN "committed_current"
    ELSE IF now > thread.deadline_at THEN "expired"
    ELSE IF pledged_total >= thread.target_amount THEN "funded"
    ELSE "open"

\* _thread_status: first match wins
thread_status(thread, pledged_total) ==
    IF thread.committed_current THEN "committed_current"
    ELSE IF pledged_total >= thread.target_amount THEN "funded"
    ELSE IF now > thread.deadline_at THEN "expired"
    ELSE "open"

\* Variant of _is_group_member without the status filter: an invited user counts
is_group_member_any_status(group_id, user_id) ==
    /\ group_id = TheGroup
    /\ user_id \in Users
    /\ memberships[user_id] # "none"

\* _is_group_member: an accepted membership row exists
is_group_member(group_id, user_id) ==
    /\ group_id = TheGroup
    /\ user_id \in Users
    /\ memberships[user_id] = "accepted"

\* _thread_user_allowed
thread_user_allowed(thread, user) ==
    IF thread.audience_mode = "open" THEN TRUE
    ELSE IF thread.audience_mode = "group"
         THEN thread.group_id # NoGroup /\ is_group_member(thread.group_id, user)
    ELSE IF thread.audience_mode = "specific" THEN user \in thread.targets
    ELSE FALSE

\* _deal_locked
deal_locked(locks, deal_type, deal_id) ==
    \E i \in 1..Len(locks) : locks[i].deal_type = deal_type /\ locks[i].deal_id = deal_id

\* Variant of _lock_deal that builds the row and never adds it to the session
lock_deal_not_added(locks, deal_type, deal_id) == locks

\* _lock_deal
lock_deal(locks, deal_type, deal_id) ==
    Append(locks, [deal_type |-> deal_type, deal_id |-> deal_id])

\* Variant of _create_balance_entries with payer and payee the wrong way round
RECURSIVE create_balance_entries_reversed(_, _, _, _, _)
create_balance_entries_reversed(entries, deal_type, deal_id, payee_id, items) ==
    IF items = <<>> THEN entries
    ELSE LET item == Head(items)
             added == IF item.amount <= 0 THEN entries
                      ELSE Append(entries,
                                  [deal_type |-> deal_type, deal_id |-> deal_id,
                                   payer_id |-> payee_id, payee_id |-> item.supporter_id,
                                   amount |-> item.amount, status |-> "open"])
         IN create_balance_entries_reversed(added, deal_type, deal_id, payee_id, Tail(items))

\* Variant of _create_balance_entries that stops after the first entry written
create_balance_entries_first_only(entries, deal_type, deal_id, payee_id, items) ==
    LET positive == SelectSeq(items, LAMBDA item : item.amount > 0)
    IN IF positive = <<>> THEN entries
       ELSE Append(entries,
                   [deal_type |-> deal_type, deal_id |-> deal_id,
                    payer_id |-> Head(positive).supporter_id, payee_id |-> payee_id,
                    amount |-> Head(positive).amount, status |-> "open"])

\* _create_balance_entries: one open entry per item of positive amount
RECURSIVE create_balance_entries(_, _, _, _, _)
create_balance_entries(entries, deal_type, deal_id, payee_id, items) ==
    IF items = <<>> THEN entries
    ELSE LET item == Head(items)
             added == IF item.amount <= 0 THEN entries
                      ELSE Append(entries,
                                  [deal_type |-> deal_type, deal_id |-> deal_id,
                                   payer_id |-> item.supporter_id, payee_id |-> payee_id,
                                   amount |-> item.amount, status |-> "open"])
         IN create_balance_entries(added, deal_type, deal_id, payee_id, Tail(items))

\* Variant of _try_close_thread_deal that settles a funded thread only
try_close_thread_deal_funded_only(locks, entries, thread_id, thread) ==
    LET total == SumAmounts(thread.pledges)
        status == thread_status(thread, total)
    IN IF status # "funded" THEN <<locks, entries>>
       ELSE IF deal_locked(locks, "thread", thread_id) THEN <<locks, entries>>
       ELSE <<lock_deal(locks, "thread", thread_id),
              create_balance_entries(entries, "thread", thread_id,
                                     thread.creator_id, thread.pledges)>>

\* Variant of _try_close_thread_deal without the status test
try_close_thread_deal_any_status(locks, entries, thread_id, thread) ==
    IF deal_locked(locks, "thread", thread_id) THEN <<locks, entries>>
    ELSE <<lock_deal(locks, "thread", thread_id),
           create_balance_entries(entries, "thread", thread_id,
                                  thread.creator_id, thread.pledges)>>

\* _try_close_thread_deal: the tables after the call, as <<locks, entries>>
try_close_thread_deal(locks, entries, thread_id, thread) ==
    LET total == SumAmounts(thread.pledges)
        status == thread_status(thread, total)
    IN IF status \notin {"funded", "committed_current"} THEN <<locks, entries>>
       ELSE IF deal_locked(locks, "thread", thread_id) THEN <<locks, entries>>
       ELSE <<lock_deal(locks, "thread", thread_id),
              create_balance_entries(entries, "thread", thread_id,
                                     thread.creator_id, thread.pledges)>>

\* _reverse_user_allowed_to_bid
reverse_user_allowed_to_bid(req, user) ==
    IF req.audience_mode = "open" THEN TRUE
    ELSE IF req.audience_mode = "group"
         THEN req.group_id # NoGroup /\ is_group_member(req.group_id, user)
    ELSE IF req.audience_mode = "specific" THEN user \in req.targets
    ELSE FALSE

\* The sort key of _lowest_active_bid: (ask_amount, created_at), compared as tuples
BidKeyLeq(a, b) ==
    \/ a.ask_amount < b.ask_amount
    \/ a.ask_amount = b.ask_amount /\ a.created_at <= b.created_at

\* Variant of _lowest_active_bid that sorts on ask_amount alone
lowest_active_bid_by_ask(bids) ==
    LET active == {i \in 1..Len(bids) : bids[i].active}
    IN {i \in active : \A j \in active : bids[i].ask_amount <= bids[j].ask_amount}

\* _lowest_active_bid: the ids of the bids the call can return; none when no bid
\* is active.  sorted() is stable and req.bids comes ordered by ask_amount only,
\* so among active bids with equal ask_amount and equal created_at the database
\* decides which is first.
lowest_active_bid(bids) ==
    LET active == {i \in 1..Len(bids) : bids[i].active}
    IN {i \in active : \A j \in active : BidKeyLeq(bids[i], bids[j])}

\* Variant of _try_close_reverse_deal that takes a missing bid for an ask of 0
try_close_reverse_deal_zero_ask(locks, entries, request_id, req) ==
    IF req.status # "open" THEN {<<req, locks, entries>>}
    ELSE IF deal_locked(locks, "reverse", request_id) THEN {<<req, locks, entries>>}
    ELSE IF lowest_active_bid(req.bids) = {}
    THEN {IF SumAmounts(req.pledges) <= 0
          THEN <<req, locks, entries>>
          ELSE <<[req EXCEPT !.status = "closed"],
                 lock_deal(locks, "reverse", request_id),
                 create_balance_entries(entries, "reverse", request_id,
                                        req.creator_id, req.pledges)>>}
    ELSE {IF SumAmounts(req.pledges) < req.bids[low_bid].ask_amount
          THEN <<req, locks, entries>>
          ELSE <<[req EXCEPT !.status = "closed", !.winner_bid_id = low_bid],
                 lock_deal(locks, "reverse", request_id),
                 create_balance_entries(entries, "reverse", request_id,
                                        req.bids[low_bid].bidder_id, req.pledges)>>
          : low_bid \in lowest_active_bid(req.bids)}

\* Variant of _try_close_reverse_deal that wants the pledged total above the ask
try_close_reverse_deal_strict(locks, entries, request_id, req) ==
    IF req.status # "open" THEN {<<req, locks, entries>>}
    ELSE IF deal_locked(locks, "reverse", request_id) THEN {<<req, locks, entries>>}
    ELSE IF lowest_active_bid(req.bids) = {} THEN {<<req, locks, entries>>}
    ELSE {IF SumAmounts(req.pledges) <= req.bids[low_bid].ask_amount
          THEN <<req, locks, entries>>
          ELSE <<[req EXCEPT !.status = "closed", !.winner_bid_id = low_bid],
                 lock_deal(locks, "reverse", request_id),
                 create_balance_entries(entries, "reverse", request_id,
                                        req.bids[low_bid].bidder_id, req.pledges)>>
          : low_bid \in lowest_active_bid(req.bids)}

\* _try_close_reverse_deal: the outcomes of the call, each <<request, locks, entries>>
try_close_reverse_deal(locks, entries, request_id, req) ==
    IF req.status # "open" THEN {<<req, locks, entries>>}
    ELSE IF deal_locked(locks, "reverse", request_id) THEN {<<req, locks, entries>>}
    ELSE IF lowest_active_bid(req.bids) = {} THEN {<<req, locks, entries>>}
    ELSE {IF SumAmounts(req.pledges) < req.bids[low_bid].ask_amount
          THEN <<req, locks, entries>>
          ELSE <<[req EXCEPT !.status = "closed", !.winner_bid_id = low_bid],
                 lock_deal(locks, "reverse", request_id),
                 create_balance_entries(entries, "reverse", request_id,
                                        req.bids[low_bid].bidder_id, req.pledges)>>
          : low_bid \in lowest_active_bid(req.bids)}

\* ------------------------------------------------------------ session_scope
\* The handler body runs in one session: it is committed when the body returns
\* (also when it returns an error response) and rolled back when it raises.
session_scope(raised, body) == IF raised THEN UNCHANGED db ELSE body

\* Only a body that writes can fail at its flush or commit.
MayRaise(writes) == IF writes THEN BOOLEAN ELSE {FALSE}

\* ------------------------------------------------------------------- groups
\* approve_group_member: response status
approve_group_member_code(owner, member) ==
    IF owner = NoUser THEN 401
    ELSE IF owner # GroupOwner THEN 403
    ELSE IF member \notin Users \/ memberships[member] = "none" THEN 404
    ELSE 200

approve_group_member(owner, member) ==
    /\ approve_group_member_code(owner, member) = 200
    /\ memberships' = [memberships EXCEPT ![member] = "accepted"]
    /\ UNCHANGED <<now, threadTables, reverseTables, dealLocks, balanceEntries>>

\* ------------------------------------------------------------------ threads
\* create_thread: response status
create_thread_code(creator, target_amount, deadline, audience_mode, group_id, target_usernames) ==
    IF target_amount < 1 THEN 400
    ELSE IF audience_mode \notin AudienceModes THEN 400
    ELSE IF creator = NoUser THEN 401
    ELSE IF audience_mode \in {"group", "specific"} /\ group_id = NoGroup THEN 400
    ELSE IF audience_mode \in {"group", "specific"} /\ group_id # TheGroup THEN 404
    ELSE IF audience_mode \in {"group", "specific"} /\ ~is_group_member(group_id, creator) THEN 403
    ELSE IF audience_mode = "specific" /\ target_usernames = {} THEN 400
    ELSE 201

\* create_thread: the handler got as far as session.add(thread); session.flush()
create_thread_added(creator, target_amount, deadline, audience_mode, group_id, target_usernames) ==
    LET code == create_thread_code(creator, target_amount, deadline, audience_mode,
                                   group_id, target_usernames)
    IN \/ code = 201
       \/ /\ code = 400
          /\ target_amount >= 1
          /\ audience_mode = "specific"
          /\ group_id = TheGroup
          /\ is_group_member(group_id, creator)

\* create_thread: the Thread row and its ThreadTarget rows
new_thread(creator, target_amount, deadline, audience_mode, group_id, target_usernames) ==
    [creator_id |-> creator,
     target_amount |-> target_amount,
     deadline_at |-> deadline,
     committed_current |-> FALSE,
     committed_amount |-> 0,
     group_id |-> IF audience_mode \in {"group", "specific"} THEN group_id ELSE NoGroup,
     audience_mode |-> audience_mode,
     targets |-> IF audience_mode = "specific"
                 THEN {u \in target_usernames : is_group_member(group_id, u)}
                 ELSE {},
     pledges |-> <<>>]

create_thread(creator, target_amount, deadline, audience_mode, group_id, target_usernames, raised) ==
    /\ threadCount + requestCount < MaxDeals
    /\ session_scope(raised,
         IF create_thread_added(creator, target_amount, deadline, audience_mode,
                                group_id, target_usernames)
         THEN /\ threadCount' = threadCount + 1
              /\ threads' = (threadCount + 1 :>
                               new_thread(creator, target_amount, deadline, audience_mode,
                                          group_id, target_usernames)) @@ threads
              /\ UNCHANGED <<memberships, reverseTables, dealLocks, balanceEntries>>
         ELSE UNCHANGED db)
    /\ UNCHANGED now

\* Variant of the create_thread_pledge checks without the login test
create_thread_pledge_code_no_login(user, thread_id, amount) ==
    IF amount < 1 THEN 400
    ELSE IF thread_id \notin DOMAIN threads THEN 404
    ELSE LET thread == threads[thread_id]
             pledged_total == SumAmounts(thread.pledges)
             remaining == thread.target_amount - pledged_total
         IN IF ~thread_user_allowed(thread, user) THEN 403
            ELSE IF thread_status(thread, pledged_total) # "open" THEN 400
            ELSE IF remaining <= 0 THEN 400
            ELSE IF amount > remaining THEN 400
            ELSE 201

\* Variant of the create_thread_pledge checks without amount > remaining
create_thread_pledge_code_no_ceiling(user, thread_id, amount) ==
    IF amount < 1 THEN 400
    ELSE IF user = NoUser THEN 401
    ELSE IF thread_id \notin DOMAIN threads THEN 404
    ELSE LET thread == threads[thread_id]
             pledged_total == SumAmounts(thread.pledges)
             remaining == thread.target_amount - pledged_total
         IN IF ~thread_user_allowed(thread, user) THEN 403
            ELSE IF thread_status(thread, pledged_total) # "open" THEN 400
            ELSE IF remaining <= 0 THEN 400
            ELSE 201

\* Variant of the create_thread_pledge checks without the status test
create_thread_pledge_code_no_status(user, thread_id, amount) ==
    IF amount < 1 THEN 400
    ELSE IF user = NoUser THEN 401
    ELSE IF thread_id \notin DOMAIN threads THEN 404
    ELSE LET thread == threads[thread_id]
             pledged_total == SumAmounts(thread.pledges)
             remaining == thread.target_amount - pledged_total
         IN IF ~thread_user_allowed(thread, user) THEN 403
            ELSE IF remaining <= 0 THEN 400
            ELSE IF amount > remaining THEN 400
            ELSE 201

\* create_thread_pledge: response status
create_thread_pledge_code(user, thread_id, amount) ==
    IF amount < 1 THEN 400
    ELSE IF user = NoUser THEN 401
    ELSE IF thread_id \notin DOMAIN threads THEN 404
    ELSE LET thread == threads[thread_id]
             pledged_total == SumAmounts(thread.pledges)
             remaining == thread.target_amount - pledged_total
         IN IF ~thread_user_allowed(thread, user) THEN 403
            ELSE IF thread_status(thread, pledged_total) # "open" THEN 400
            ELSE IF remaining <= 0 THEN 400
            ELSE IF amount > remaining THEN 400
            ELSE 201

\* ThreadPledge(...) added in front: the relationship lists the newest first
add_pledge(row, user, amount) ==
    [row EXCEPT !.pledges = <<[supporter_id |-> user, amount |-> amount]>> \o @]

\* Variant of create_thread_pledge without the call of _try_close_thread_deal
create_thread_pledge_no_settle(user, thread_id, amount, raised) ==
    /\ session_scope(raised,
         IF create_thread_pledge_code(user, thread_id, amount) = 201
         THEN /\ threads' = [threads EXCEPT
                                 ![thread_id] = add_pledge(threads[thread_id], user, amount)]
              /\ UNCHANGED <<memberships, threadCount, reverseTables, dealLocks, balanceEntries>>
         ELSE UNCHANGED db)
    /\ UNCHANGED now

create_thread_pledge(user, thread_id, amount, raised) ==
    /\ session_scope(raised,
         IF create_thread_pledge_code(user, thread_id, amount) = 201
         THEN LET thread == add_pledge(threads[thread_id], user, amount)
                  closed == try_close_thread_deal(dealLocks, balanceEntries, thread_id, thread)
              IN /\ threads' = [threads EXCEPT ![thread_id] = thread]
                 /\ dealLocks' = closed[1]
                 /\ balanceEntries' = closed[2]
                 /\ UNCHANGED <<memberships, threadCount, reverseTables>>
         ELSE UNCHANGED db)
    /\ UNCHANGED now

\* Variant of the commit_current checks without the creator test
commit_current_code_any_user(user, thread_id) ==
    IF user = NoUser THEN 401
    ELSE IF thread_id \notin DOMAIN threads THEN 404
    ELSE LET thread == threads[thread_id]
             pledged_total == SumAmounts(thread.pledges)
         IN IF pledged_total <= 0 \/ pledged_total >= thread.target_amount THEN 400
            ELSE IF thread.committed_current THEN 400
            ELSE 200

\* commit_current: response status
commit_current_code(user, thread_id) ==
    IF user = NoUser THEN 401
    ELSE IF thread_id \notin DOMAIN threads THEN 404
    ELSE LET thread == threads[thread_id]
             pledged_total == SumAmounts(thread.pledges)
         IN IF thread.creator_id # user THEN 403
            ELSE IF pledged_total <= 0 \/ pledged_total >= thread.target_amount THEN 400
            ELSE IF thread.committed_current THEN 400
            ELSE 200

\* Variant of commit_current that leaves committed_amount as it was
commit_current_no_amount(user, thread_id, raised) ==
    /\ session_scope(raised,
         IF commit_current_code(user, thread_id) = 200
         THEN LET thread == [threads[thread_id] EXCEPT !.committed_current = TRUE]
                  closed == try_close_thread_deal(dealLocks, balanceEntries, thread_id, thread)
              IN /\ threads' = [threads EXCEPT ![thread_id] = thread]
                 /\ dealLocks' = closed[1]
                 /\ balanceEntries' = closed[2]
                 /\ UNCHANGED <<memberships, threadCount, reverseTables>>
         ELSE UNCHANGED db)
    /\ UNCHANGED now

\* commit_current: the commit is recorded with the pledged total, then settled
commit_current(user, thread_id, raised) ==
    /\ session_scope(raised,
         IF commit_current_code(user, thread_id) = 200
         THEN LET thread == [threads[thread_id] EXCEPT
                                !.committed_current = TRUE,
                                !.committed_amount = SumAmounts(threads[thread_id].pledges)]
                  closed == try_close_thread_deal(dealLocks, balanceEntries, thread_id, thread)
              IN /\ threads' = [threads EXCEPT ![thread_id] = thread]
                 /\ dealLocks' = closed[1]
                 /\ balanceEntries' = closed[2]
                 /\ UNCHANGED <<memberships, threadCount, reverseTables>>
         ELSE UNCHANGED db)
    /\ UNCHANGED now

\* delete_thread: response status
delete_thread_code(user, thread_id) ==
    IF user = NoUser THEN 401
    ELSE IF thread_id \notin DOMAIN threads THEN 404
    ELSE IF ~(threads[thread_id].creator_id = user \/ is_admin(user)) THEN 403
    ELSE 200

\* session.delete(thread): the row goes with its pledges and targets (ORM cascade)
delete_thread(user, thread_id, raised) ==
    /\ session_scope(raised,
         IF delete_thread_code(user, thread_id) = 200
         THEN /\ threads' = [t \in DOMAIN threads \ {thread_id} |-> threads[t]]
              /\ UNCHANGED <<memberships, threadCount, reverseTables, dealLocks, balanceEntries>>
         ELSE UNCHANGED db)
    /\ UNCHANGED now

\* ---------------------------------------------------------- reverse requests
NoBid == 0

\* create_reverse: response status
create_reverse_code(creator, audience_mode, group_id, target_usernames, seed_amount) ==
    IF audience_mode \notin AudienceModes THEN 400
    ELSE IF seed_amount < 0 THEN 400
    ELSE IF creator = NoUser THEN 401
    ELSE IF audience_mode \in {"group", "specific"} /\ group_id = NoGroup THEN 400
    ELSE IF audience_mode \in {"group", "specific"} /\ group_id # TheGroup THEN 404
    ELSE IF audience_mode \in {"group", "specific"} /\ ~is_group_member(group_id, creator) THEN 403
    ELSE IF audience_mode = "specific" /\ target_usernames = {} THEN 400
    ELSE 201

\* create_reverse: the handler got as far as session.add(req); session.flush()
create_reverse_added(creator, audience_mode, group_id, target_usernames, seed_amount) ==
    LET code == create_reverse_code(creator, audience_mode, group_id, target_usernames,
                                    seed_amount)
    IN \/ code = 201
       \/ /\ code = 400
          /\ seed_amount >= 0
          /\ audience_mode = "specific"
          /\ group_id = TheGroup
          /\ is_group_member(group_id, creator)

\* create_reverse: the ReverseRequest row, its ReverseTarget rows and the seed pledge
new_reverse(creator, audience_mode, group_id, target_usernames, seed_amount) ==
    LET code == create_reverse_code(creator, audience_mode, group_id, target_usernames,
                                    seed_amount)
    IN [creator_id |-> creator,
        status |-> "open",
        group_id |-> IF audience_mode \in {"group", "specific"} THEN group_id ELSE NoGroup,
        audience_mode |-> audience_mode,
        winner_bid_id |-> NoBid,
        targets |-> IF audience_mode = "specific"
                    THEN {u \in target_usernames : is_group_member(group_id, u)}
                    ELSE {},
        bids |-> <<>>,
        pledges |-> IF code = 201 /\ seed_amount > 0
                    THEN <<[supporter_id |-> creator, amount |-> seed_amount]>>
                    ELSE <<>>]

create_reverse(creator, audience_mode, group_id, target_usernames, seed_amount, raised) ==
    /\ threadCount + requestCount < MaxDeals
    /\ session_scope(raised,
         IF create_reverse_added(creator, audience_mode, group_id, target_usernames, seed_amount)
         THEN /\ requestCount' = requestCount + 1
              /\ requests' = (requestCount + 1 :>
                                new_reverse(creator, audience_mode, group_id,
                                            target_usernames, seed_amount)) @@ requests
              /\ UNCHANGED <<memberships, threadTables, dealLocks, balanceEntries>>
         ELSE UNCHANGED db)
    /\ UNCHANGED now

\* Variant of the create_or_update_bid checks without the audience test
create_or_update_bid_code_no_gate(user, request_id, ask_amount) ==
    IF ask_amount < 1 THEN 400
    ELSE IF user = NoUser THEN 401
    ELSE IF request_id \notin DOMAIN requests THEN 404
    ELSE IF requests[request_id].status # "open" THEN 400
    ELSE 201

\* Variant of the create_or_update_bid checks without the status test
create_or_update_bid_code_no_status(user, request_id, ask_amount) ==
    IF ask_amount < 1 THEN 400
    ELSE IF user = NoUser THEN 401
    ELSE IF request_id \notin DOMAIN requests THEN 404
    ELSE IF ~reverse_user_allowed_to_bid(requests[request_id], user) THEN 403
    ELSE 201

\* create_or_update_bid: response status
create_or_update_bid_code(user, request_id, ask_amount) ==
    IF ask_amount < 1 THEN 400
    ELSE IF user = NoUser THEN 401
    ELSE IF request_id \notin DOMAIN requests THEN 404
    ELSE IF requests[request_id].status # "open" THEN 400
    ELSE IF ~reverse_user_allowed_to_bid(requests[request_id], user) THEN 403
    ELSE 201

\* The own_bid query: the active bids of the user on the request
own_bids(req, user) ==
    {i \in 1..Len(req.bids) : req.bids[i].bidder_id = user /\ req.bids[i].active}

\* Variant of create_or_update_bid that adds a bid whatever the bidder has
with_bid_always_new(req, user, ask_amount) ==
    {[req EXCEPT !.bids = Append(@, [bidder_id |-> user, ask_amount |-> ask_amount,
                                     created_at |-> now, active |-> TRUE])]}

\* Variant of create_or_update_bid whose re-bid rewrites the ask_amount only
with_bid_keeps_time(req, user, ask_amount) ==
    IF own_bids(req, user) # {}
    THEN {[req EXCEPT !.bids[own_bid].ask_amount = ask_amount] : own_bid \in own_bids(req, user)}
    ELSE {[req EXCEPT !.bids = Append(@, [bidder_id |-> user, ask_amount |-> ask_amount,
                                          created_at |-> now, active |-> TRUE])]}

\* create_or_update_bid: the request after the bid is written; .first() picks
\* one active bid of the bidder when the query finds some
with_bid(req, user, ask_amount) ==
    IF own_bids(req, user) # {}
    THEN {[req EXCEPT !.bids[own_bid].ask_amount = ask_amount,
                      !.bids[own_bid].created_at = now] : own_bid \in own_bids(req, user)}
    ELSE {[req EXCEPT !.bids = Append(@, [bidder_id |-> user, ask_amount |-> ask_amount,
                                          created_at |-> now, active |-> TRUE])]}

\* Variant of create_or_update_bid without the call of _try_close_reverse_deal
create_or_update_bid_no_settle(user, request_id, ask_amount, raised) ==
    /\ session_scope(raised,
         IF create_or_update_bid_code(user, request_id, ask_amount) = 201
         THEN \E req \in with_bid(requests[request_id], user, ask_amount) :
                 /\ requests' = [requests EXCEPT ![request_id] = req]
                 /\ UNCHANGED <<memberships, threadTables, requestCount, dealLocks,
                                balanceEntries>>
         ELSE UNCHANGED db)
    /\ UNCHANGED now

create_or_update_bid(user, request_id, ask_amount, raised) ==
    /\ session_scope(raised,
         IF create_or_update_bid_code(user, request_id, ask_amount) = 201
         THEN \E req \in with_bid(requests[request_id], user, ask_amount) :
              \E closed \in try_close_reverse_deal(dealLocks, balanceEntries, request_id, req) :
                 /\ requests' = [requests EXCEPT ![request_id] = closed[1]]
                 /\ dealLocks' = closed[2]
                 /\ balanceEntries' = closed[3]
                 /\ UNCHANGED <<memberships, threadTables, requestCount>>
         ELSE UNCHANGED db)
    /\ UNCHANGED now

\* Variant of the create_reverse_pledge checks without amount > remaining
create_reverse_pledge_code_no_ceiling(user, request_id, amount) ==
    IF amount < 1 THEN 400
    ELSE IF user = NoUser THEN 401
    ELSE IF request_id \notin DOMAIN requests THEN 404
    ELSE IF requests[request_id].status # "open" THEN 400
    ELSE LET req == requests[request_id]
             low == lowest_active_bid(req.bids)
             current_total == SumAmounts(req.pledges)
         IN IF low = {} THEN 201
            ELSE LET remaining == req.bids[CHOOSE i \in low : TRUE].ask_amount - current_total
                 IN IF remaining <= 0 THEN 400
                    ELSE 201

\* Variant of the create_reverse_pledge checks that applies the bidding gate
create_reverse_pledge_code_gated(user, request_id, amount) ==
    IF amount < 1 THEN 400
    ELSE IF user = NoUser THEN 401
    ELSE IF request_id \notin DOMAIN requests THEN 404
    ELSE IF requests[request_id].status # "open" THEN 400
    ELSE IF ~reverse_user_allowed_to_bid(requests[request_id], user) THEN 403
    ELSE LET req == requests[request_id]
             low == lowest_active_bid(req.bids)
             current_total == SumAmounts(req.pledges)
         IN IF low = {} THEN 201
            ELSE LET remaining == req.bids[CHOOSE i \in low : TRUE].ask_amount - current_total
                 IN IF remaining <= 0 THEN 400
                    ELSE IF amount > remaining THEN 400
                    ELSE 201

\* create_reverse_pledge: response status
create_reverse_pledge_code(user, request_id, amount) ==
    IF amount < 1 THEN 400
    ELSE IF user = NoUser THEN 401
    ELSE IF request_id \notin DOMAIN requests THEN 404
    ELSE IF requests[request_id].status # "open" THEN 400
    ELSE LET req == requests[request_id]
             low == lowest_active_bid(req.bids)
             current_total == SumAmounts(req.pledges)
         IN IF low = {} THEN 201
            ELSE LET remaining == req.bids[CHOOSE i \in low : TRUE].ask_amount - current_total
                 IN IF remaining <= 0 THEN 400
                    ELSE IF amount > remaining THEN 400
                    ELSE 201

create_reverse_pledge(user, request_id, amount, raised) ==
    /\ request_id \in DOMAIN requests => Len(requests[request_id].pledges) < MaxPledges
    /\ session_scope(raised,
         IF create_reverse_pledge_code(user, request_id, amount) = 201
         THEN \E closed \in try_close_reverse_deal(dealLocks, balanceEntries, request_id,
                                                   add_pledge(requests[request_id], user, amount)) :
                 /\ requests' = [requests EXCEPT ![request_id] = closed[1]]
                 /\ dealLocks' = closed[2]
                 /\ balanceEntries' = closed[3]
                 /\ UNCHANGED <<memberships, threadTables, requestCount>>
         ELSE UNCHANGED db)
    /\ UNCHANGED now

\* ------------------------------------------------------------------- ledger
\* Variant of the declare_received checks without the status test
declare_received_code_no_status(user, entry_id) ==
    IF user = NoUser THEN 401
    ELSE IF entry_id \notin 1..Len(balanceEntries) THEN 404
    ELSE IF balanceEntries[entry_id].payee_id # user THEN 403
    ELSE 200

\* declare_received: response status
declare_received_code(user, entry_id) ==
    IF user = NoUser THEN 401
    ELSE IF entry_id \notin 1..Len(balanceEntries) THEN 404
    ELSE IF balanceEntries[entry_id].payee_id # user THEN 403
    ELSE IF balanceEntries[entry_id].status # "open" THEN 400
    ELSE 200

\* Variant of declare_received that deletes the acknowledged entry
declare_received_deletes(user, entry_id, raised) ==
    /\ session_scope(raised,
         IF declare_received_code(user, entry_id) = 200
         THEN /\ balanceEntries' = SubSeq(balanceEntries, 1, entry_id - 1) \o
                                    SubSeq(balanceEntries, entry_id + 1, Len(balanceEntries))
              /\ UNCHANGED <<memberships, threadTables, reverseTables, dealLocks>>
         ELSE UNCHANGED db)
    /\ UNCHANGED now

declare_received(user, entry_id, raised) ==
    /\ session_scope(raised,
         IF declare_received_code(user, entry_id) = 200
         THEN /\ balanceEntries' = [balanceEntries EXCEPT ![entry_id].status = "received_declared"]
              /\ UNCHANGED <<memberships, threadTables, reverseTables, dealLocks>>
         ELSE UNCHANGED db)
    /\ UNCHANGED now

\* -------------------------------------------------------------------- reads
\* _serialize_thread: the derived fields of a thread as the viewer gets them
serialize_thread(thread, viewer) ==
    LET pledged_total == SumAmounts(thread.pledges)
        status == thread_status(thread, pledged_total)
    IN [status |-> status,
        pledgedTotal |-> pledged_total,
        canDelete |-> viewer # NoUser /\ (viewer = thread.creator_id \/ is_admin(viewer)),
        canCommitCurrent |-> /\ viewer # NoUser
                             /\ viewer = thread.creator_id
                             /\ ~thread.committed_current
                             /\ pledged_total > 0
                             /\ pledged_total < thread.target_amount
                             /\ status \in {"open", "expired"}]

\* get_threads: every thread, whoever asks
get_threads(viewer) ==
    [code |-> 200,
     threads |-> [t \in DOMAIN threads |-> serialize_thread(threads[t], viewer)]]

\* _serialize_reverse_with_perm: the derived fields of a reverse request
serialize_reverse_with_perm(req, viewer) ==
    [status |-> req.status,
     pledgedTotal |-> SumAmounts(req.pledges),
     lowestBid |-> {req.bids[i].ask_amount : i \in lowest_active_bid(req.bids)},
     canBid |-> /\ viewer # NoUser
                /\ req.status = "open"
                /\ reverse_user_allowed_to_bid(req, viewer)]

\* list_reverse: every reverse request, whoever asks
list_reverse(viewer) ==
    [code |-> 200,
     requests |-> [r \in DOMAIN requests |-> serialize_reverse_with_perm(requests[r], viewer)]]

\* my_balance: response status
my_balance_code(user) == IF user = NoUser THEN 401 ELSE 200

\* Variant of my_balance that adds up the entries of every status
my_balance_any_status(user) ==
    LET rows == SelectSeq(balanceEntries, LAMBDA e : e.payer_id = user \/ e.payee_id = user)
    IN [owes |-> SumAmounts(SelectSeq(rows, LAMBDA row : row.payer_id = user)),
        toReceive |-> SumAmounts(SelectSeq(rows, LAMBDA row : row.payee_id = user)),
        entries |-> Len(rows)]

\* my_balance: the totals over the rows the user is payer or payee of
my_balance(user) ==
    LET rows == SelectSeq(balanceEntries, LAMBDA e : e.payer_id = user \/ e.payee_id = user)
    IN [owes |-> SumAmounts(SelectSeq(rows, LAMBDA row : row.payer_id = user
                                                         /\ row.status = "open")),
        toReceive |-> SumAmounts(SelectSeq(rows, LAMBDA row : row.payee_id = user
                                                              /\ row.status = "open")),
        entries |-> Len(rows)]

\* -------------------------------------------------------------------- clock
Tick ==
    /\ now < MaxTime
    /\ now' = now + 1
    /\ UNCHANGED <<db, aux>>

\* ------------------------------------------------------------ specification
IdleSession ==
    [pc |-> "idle", user |-> NoUser, deal_id |-> 0, amount |-> 0, view |-> <<>>,
     new_pledges |-> <<>>, new_locks |-> <<>>, new_entries |-> <<>>]

NoProbe == [call |-> "none"]

Init ==
    /\ now = 0
    /\ sessions = [w \in Workers |-> IdleSession]
    /\ probe = NoProbe
    /\ memberships = [u \in Users |-> IF u = "bob" THEN "pending" ELSE "accepted"]
    /\ threads = <<>>
    /\ threadCount = 0
    /\ requests = <<>>
    /\ requestCount = 0
    /\ dealLocks = <<>>
    /\ balanceEntries = <<>>

CreateThread ==
    \E creator \in Actors, target_amount \in 0..MaxTarget, deadline \in 0..MaxTime,
       audience_mode \in AudienceModes, group_id \in GroupRefs,
       target_usernames \in SUBSET Users :
        \E raised \in MayRaise(create_thread_added(creator, target_amount, deadline,
                                                   audience_mode, group_id, target_usernames)) :
        /\ create_thread(creator, target_amount, deadline, audience_mode, group_id,
                         target_usernames, raised)
        /\ UNCHANGED aux

CreateThreadPledge ==
    \E user \in Actors, thread_id \in 1..MaxDeals, amount \in 0..MaxAmount :
        \E raised \in MayRaise(create_thread_pledge_code(user, thread_id, amount) = 201) :
        /\ create_thread_pledge(user, thread_id, amount, raised)
        /\ UNCHANGED aux

CommitCurrent ==
    \E user \in Actors, thread_id \in 1..MaxDeals :
        \E raised \in MayRaise(commit_current_code(user, thread_id) = 200) :
        /\ commit_current(user, thread_id, raised)
        /\ UNCHANGED aux

DeleteThread ==
    \E user \in Actors, thread_id \in 1..MaxDeals :
        \E raised \in MayRaise(delete_thread_code(user, thread_id) = 200) :
        /\ delete_thread(user, thread_id, raised)
        /\ UNCHANGED aux

CreateReverse ==
    \E creator \in Actors, audience_mode \in AudienceModes, group_id \in GroupRefs,
       target_usernames \in SUBSET Users, seed_amount \in (-1)..MaxAmount :
        \E raised \in MayRaise(create_reverse_added(creator, audience_mode, group_id,
                                                    target_usernames, seed_amount)) :
        /\ create_reverse(creator, audience_mode, group_id, target_usernames, seed_amount, raised)
        /\ UNCHANGED aux

CreateOrUpdateBid ==
    \E user \in Actors, request_id \in 1..MaxDeals, ask_amount \in 0..MaxAmount :
        \E raised \in MayRaise(create_or_update_bid_code(user, request_id, ask_amount) = 201) :
        /\ create_or_update_bid(user, request_id, ask_amount, raised)
        /\ UNCHANGED aux

CreateReversePledge ==
    \E user \in Actors, request_id \in 1..MaxDeals, amount \in 0..MaxAmount :
        \E raised \in MayRaise(create_reverse_pledge_code(user, request_id, amount) = 201) :
        /\ create_reverse_pledge(user, request_id, amount, raised)
        /\ UNCHANGED aux

DeclareReceived ==
    \E user \in Actors, entry_id \in 1..(Len(balanceEntries) + 1) :
        \E raised \in MayRaise(declare_received_code(user, entry_id) = 200) :
        /\ declare_received(user, entry_id, raised)
        /\ UNCHANGED aux

ApproveGroupMember ==
    \E owner \in Actors, member \in Users :
        /\ approve_group_member(owner, member)
        /\ UNCHANGED aux

Next ==
    \/ Tick
    \/ ApproveGroupMember
    \/ CreateThread
    \/ CreateThreadPledge
    \/ CommitCurrent
    \/ DeleteThread
    \/ CreateReverse
    \/ CreateOrUpdateBid
    \/ CreateReversePledge
    \/ DeclareReceived

Spec == Init /\ [][Next]_vars

\* ------------------------------------------------- helpers called on their own
\* _thread_status on any thread row, pledged total and clock reading
InitStatus ==
    /\ now \in 0..MaxTime
    /\ \E committed_current \in BOOLEAN, target_amount \in 1..MaxTarget,
          deadline \in 0..MaxTime, pledged_total \in 0..(MaxTarget + 1) :
        /\ threads = (1 :> [new_thread("alice", target_amount, deadline, "open", NoGroup, {})
                              EXCEPT !.committed_current = committed_current])
        /\ probe = [call |-> "thread_status", pledged_total |-> pledged_total,
                    done |-> FALSE, result |-> "none"]
    /\ threadCount = 1
    /\ memberships = [u \in Users |-> "accepted"]
    /\ requests = <<>>
    /\ requestCount = 0
    /\ dealLocks = <<>>
    /\ balanceEntries = <<>>
    /\ sessions = [w \in Workers |-> IdleSession]

CallThreadStatus ==
    /\ probe.call = "thread_status"
    /\ ~probe.done
    /\ probe' = [probe EXCEPT !.done = TRUE,
                              !.result = thread_status(threads[1], probe.pledged_total)]
    /\ UNCHANGED <<now, db, sessions>>

SpecStatus == InitStatus /\ [][CallThreadStatus]_vars

\* _lowest_active_bid on any list of bids
BidRows ==
    [bidder_id : Users, ask_amount : 1..MaxAmount, created_at : 0..MaxTime, active : BOOLEAN]

\* req.bids as the relationship loads it: order_by ask_amount ascending
BidLists ==
    UNION {{bids \in [1..n -> {b \in BidRows : b.bidder_id = "alice"}] :
               \A i \in 1..(n - 1) : bids[i].ask_amount <= bids[i + 1].ask_amount}
           : n \in 0..MaxBids}

InitLowest ==
    /\ now = MaxTime
    /\ \E bids \in BidLists :
        requests = (1 :> [new_reverse("alice", "open", NoGroup, {}, 0) EXCEPT !.bids = bids])
    /\ probe = [call |-> "lowest_active_bid", done |-> FALSE, result |-> NoBid]
    /\ requestCount = 1
    /\ memberships = [u \in Users |-> "accepted"]
    /\ threads = <<>>
    /\ threadCount = 0
    /\ dealLocks = <<>>
    /\ balanceEntries = <<>>
    /\ sessions = [w \in Workers |-> IdleSession]

CallLowestActiveBid ==
    /\ probe.call = "lowest_active_bid"
    /\ ~probe.done
    /\ \E low \in (IF lowest_active_bid(requests[1].bids) = {} THEN {NoBid}
                   ELSE lowest_active_bid(requests[1].bids)) :
        probe' = [probe EXCEPT !.done = TRUE, !.result = low]
    /\ UNCHANGED <<now, db, sessions>>

SpecLowest == InitLowest /\ [][CallLowestActiveBid]_vars

\* _thread_user_allowed and _reverse_user_allowed_to_bid on any row the schema
\* admits (audience_mode, nullable group_id and target rows are independent
\* columns) and any membership table
MembershipStatuses == {"none", "pending", "accepted"}

InitGate ==
    /\ now = 0
    /\ memberships \in [Users -> MembershipStatuses]
    /\ \E kind \in DealTypes, audience_mode \in AudienceModes, group_id \in GroupRefs,
          targets \in SUBSET Users, user \in Users :
        /\ probe = [call |-> "user_allowed", kind |-> kind, user |-> user,
                    done |-> FALSE, result |-> FALSE]
        /\ threads = IF kind = "thread"
                     THEN (1 :> [new_thread("alice", 1, 0, audience_mode, NoGroup, {})
                                   EXCEPT !.group_id = group_id, !.targets = targets])
                     ELSE <<>>
        /\ requests = IF kind = "reverse"
                      THEN (1 :> [new_reverse("alice", audience_mode, NoGroup, {}, 0)
                                    EXCEPT !.group_id = group_id, !.targets = targets])
                      ELSE <<>>
        /\ threadCount = IF kind = "thread" THEN 1 ELSE 0
        /\ requestCount = IF kind = "reverse" THEN 1 ELSE 0
    /\ dealLocks = <<>>
    /\ balanceEntries = <<>>
    /\ sessions = [w \in Workers |-> IdleSession]

CallThreadUserAllowed ==
    /\ probe.call = "user_allowed"
    /\ probe.kind = "thread"
    /\ ~probe.done
    /\ probe' = [probe EXCEPT !.done = TRUE,
                              !.result = thread_user_allowed(threads[1], probe.user)]
    /\ UNCHANGED <<now, db, sessions>>

CallReverseUserAllowedToBid ==
    /\ probe.call = "user_allowed"
    /\ probe.kind = "reverse"
    /\ ~probe.done
    /\ probe' = [probe EXCEPT !.done = TRUE,
                              !.result = reverse_user_allowed_to_bid(requests[1], probe.user)]
    /\ UNCHANGED <<now, db, sessions>>

NextGate ==
    \/ CallThreadUserAllowed
    \/ CallReverseUserAllowedToBid

SpecGate == InitGate /\ [][NextGate]_vars

\* Bids and re-bids on one open request without pledges, over a longer stretch
\* of time than the whole-program specification covers
InitBids ==
    /\ now = 0
    /\ requests = (1 :> new_reverse("alice", "open", NoGroup, {}, 0))
    /\ requestCount = 1
    /\ memberships = [u \in Users |-> IF u = "bob" THEN "pending" ELSE "accepted"]
    /\ threads = <<>>
    /\ threadCount = 0
    /\ dealLocks = <<>>
    /\ balanceEntries = <<>>
    /\ sessions = [w \in Workers |-> IdleSession]
    /\ probe = NoProbe

TickBids ==
    /\ now < MaxBidTime
    /\ now' = now + 1
    /\ UNCHANGED <<db, aux>>

NextBids ==
    \/ TickBids
    \/ CreateOrUpdateBid

SpecBids == InitBids /\ [][NextBids]_vars

\* ------------------------------------------------------- requests in flight
\* Two create_thread_pledge requests, each in its own session.  A session reads
\* what is committed plus what it wrote itself; its writes reach the tables at
\* session.commit().  Nothing in the handlers or in session_scope serialises
\* two sessions.

\* create_thread_pledge up to session.flush(): load the thread, run the checks,
\* add the pledge
pledge_load(w, user, thread_id, amount) ==
    /\ sessions[w].pc = "idle"
    /\ sessions' = [sessions EXCEPT ![w] =
            IF create_thread_pledge_code(user, thread_id, amount) = 201
            THEN [IdleSession EXCEPT !.pc = "flushed", !.user = user,
                                     !.deal_id = thread_id, !.amount = amount,
                                     !.new_pledges = <<[supporter_id |-> user,
                                                        amount |-> amount]>>]
            ELSE [IdleSession EXCEPT !.pc = "done", !.user = user,
                                     !.deal_id = thread_id, !.amount = amount]]
    /\ UNCHANGED <<now, db, probe>>

\* session.refresh(thread): the thread and its pledges as the session sees them
pledge_refresh(w) ==
    /\ sessions[w].pc = "flushed"
    /\ sessions' = [sessions EXCEPT ![w].pc = "refreshed",
                                    ![w].view = add_pledge(threads[sessions[w].deal_id],
                                                           sessions[w].user,
                                                           sessions[w].amount)]
    /\ UNCHANGED <<now, db, probe>>

\* _try_close_thread_deal(session, thread) on the refreshed thread: the lock is
\* looked up now, the new rows stay in the session
pledge_close(w) ==
    /\ sessions[w].pc = "refreshed"
    /\ LET closed == try_close_thread_deal(dealLocks, balanceEntries,
                                           sessions[w].deal_id, sessions[w].view)
       IN sessions' = [sessions EXCEPT
                          ![w].pc = "closed",
                          ![w].new_locks = SubSeq(closed[1], Len(dealLocks) + 1,
                                                  Len(closed[1])),
                          ![w].new_entries = SubSeq(closed[2], Len(balanceEntries) + 1,
                                                    Len(closed[2]))]
    /\ UNCHANGED <<now, db, probe>>

\* session.commit() at the end of session_scope
pledge_commit(w) ==
    /\ sessions[w].pc = "closed"
    /\ threads' = [threads EXCEPT ![sessions[w].deal_id].pledges =
                                      sessions[w].new_pledges \o @]
    /\ dealLocks' = dealLocks \o sessions[w].new_locks
    /\ balanceEntries' = balanceEntries \o sessions[w].new_entries
    /\ sessions' = [sessions EXCEPT ![w].pc = "done"]
    /\ UNCHANGED <<now, memberships, threadCount, reverseTables, probe>>

PledgeLoad ==
    \E w \in Workers, user \in Actors, thread_id \in 1..MaxDeals, amount \in 0..MaxAmount :
        pledge_load(w, user, thread_id, amount)

PledgeRefresh == \E w \in Workers : pledge_refresh(w)

PledgeClose == \E w \in Workers : pledge_close(w)

PledgeCommit == \E w \in Workers : pledge_commit(w)

\* An open thread with room left, as the sequential handlers leave it
InitConc ==
    /\ now = 0
    /\ \E target_amount \in 1..MaxTarget, pledges \in {<<>>, <<[supporter_id |-> "bob", amount |-> 1]>>} :
        /\ SumAmounts(pledges) < target_amount
        /\ threads = (1 :> [new_thread("alice", target_amount, MaxTime, "open", NoGroup, {})
                              EXCEPT !.pledges = pledges])
    /\ threadCount = 1
    /\ memberships = [u \in Users |-> IF u = "bob" THEN "pending" ELSE "accepted"]
    /\ requests = <<>>
    /\ requestCount = 0
    /\ dealLocks = <<>>
    /\ balanceEntries = <<>>
    /\ sessions = [w \in Workers |-> IdleSession]
    /\ probe = NoProbe

NextConc ==
    \/ Tick
    \/ PledgeLoad
    \/ PledgeRefresh
    \/ PledgeClose
    \/ PledgeCommit

SpecConc == InitConc /\ [][NextConc]_vars

\* Two requests on one reverse request, each a create_reverse_pledge or a
\* create_or_update_bid in its own session, cut at read and check -> insert or
\* update (flush) -> re-read (refresh) -> settle -> commit.
IdleReverseSession ==
    [pc |-> "idle", op |-> "none", user |-> NoUser, deal_id |-> 0, amount |-> 0,
     view |-> <<>>, new_pledges |-> <<>>, new_bids |-> <<>>, own_bid |-> NoBid,
     new_locks |-> <<>>, new_entries |-> <<>>]

\* create_reverse_pledge up to session.flush(): load the request, run the
\* checks, add the pledge
reverse_pledge_load(w, user, request_id, amount) ==
    /\ sessions[w].pc = "idle"
    /\ sessions' = [sessions EXCEPT ![w] =
            IF create_reverse_pledge_code(user, request_id, amount) = 201
            THEN [IdleReverseSession EXCEPT
                     !.pc = "flushed", !.op = "pledge", !.user = user,
                     !.deal_id = request_id, !.amount = amount,
                     !.new_pledges = <<[supporter_id |-> user, amount |-> amount]>>]
            ELSE [IdleReverseSession EXCEPT
                     !.pc = "done", !.op = "pledge", !.user = user,
                     !.deal_id = request_id, !.amount = amount]]
    /\ UNCHANGED <<now, db, probe>>

\* create_or_update_bid up to session.flush(): load the request, run the
\* checks, look for the bidder's active bid and update it or add a bid
bid_load(w, user, request_id, ask_amount) ==
    /\ sessions[w].pc = "idle"
    /\ IF create_or_update_bid_code(user, request_id, ask_amount) = 201
       THEN LET row == [bidder_id |-> user, ask_amount |-> ask_amount,
                        created_at |-> now, active |-> TRUE]
                own == own_bids(requests[request_id], user)
            IN \E own_bid \in (IF own = {} THEN {NoBid} ELSE own) :
                 sessions' = [sessions EXCEPT ![w] =
                     [IdleReverseSession EXCEPT
                         !.pc = "flushed", !.op = "bid", !.user = user,
                         !.deal_id = request_id, !.amount = ask_amount,
                         !.new_bids = <<row>>, !.own_bid = own_bid]]
       ELSE sessions' = [sessions EXCEPT ![w] =
                [IdleReverseSession EXCEPT
                    !.pc = "done", !.op = "bid", !.user = user,
                    !.deal_id = request_id, !.amount = ask_amount]]
    /\ UNCHANGED <<now, db, probe>>

\* The bids of a request with the session's bid written: its own row updated,
\* or its new row added
bids_written(bids, session) ==
    IF session.new_bids = <<>> THEN bids
    ELSE IF session.own_bid # NoBid
    THEN [bids EXCEPT ![session.own_bid].ask_amount = session.new_bids[1].ask_amount,
                      ![session.own_bid].created_at = session.new_bids[1].created_at]
    ELSE bids \o session.new_bids

\* session.refresh(req): the committed row with what the session wrote itself
reverse_refresh(w) ==
    /\ sessions[w].pc = "flushed"
    /\ LET req == requests[sessions[w].deal_id]
       IN sessions' = [sessions EXCEPT
             ![w].pc = "refreshed",
             ![w].view = [req EXCEPT !.pledges = sessions[w].new_pledges \o @,
                                     !.bids = bids_written(@, sessions[w])]]
    /\ UNCHANGED <<now, db, probe>>

\* _try_close_reverse_deal(session, req) on the refreshed request: the lock is
\* looked up now, the rows and the new status stay in the session
reverse_close(w) ==
    /\ sessions[w].pc = "refreshed"
    /\ \E closed \in try_close_reverse_deal(dealLocks, balanceEntries,
                                              sessions[w].deal_id, sessions[w].view) :
         sessions' = [sessions EXCEPT
             ![w].pc = "closed",
             ![w].view = closed[1],
             ![w].new_locks = SubSeq(closed[2], Len(dealLocks) + 1, Len(closed[2])),
             ![w].new_entries = SubSeq(closed[3], Len(balanceEntries) + 1, Len(closed[3]))]
    /\ UNCHANGED <<now, db, probe>>

\* session.commit(): the inserts and updates of the session reach the tables.
\* A winner that is the session's own new bid gets the position that bid takes
\* in the table.
reverse_commit(w) ==
    /\ sessions[w].pc = "closed"
    /\ LET session == sessions[w]
           req == requests[session.deal_id]
           bids == bids_written(req.bids, session)
           settled == session.view.status = "closed"
           winner == IF /\ session.new_bids # <<>>
                        /\ session.own_bid = NoBid
                        /\ session.view.winner_bid_id = Len(session.view.bids)
                     THEN Len(bids)
                     ELSE session.view.winner_bid_id
       IN requests' = [requests EXCEPT ![session.deal_id] =
              [req EXCEPT !.pledges = session.new_pledges \o @,
                          !.bids = bids,
                          !.status = IF settled THEN "closed" ELSE @,
                          !.winner_bid_id = IF settled THEN winner ELSE @]]
    /\ dealLocks' = dealLocks \o sessions[w].new_locks
    /\ balanceEntries' = balanceEntries \o sessions[w].new_entries
    /\ sessions' = [sessions EXCEPT ![w].pc = "done"]
    /\ UNCHANGED <<now, memberships, threadTables, requestCount, probe>>

ReversePledgeLoad ==
    \E w \in Workers, user \in Actors, request_id \in 1..MaxDeals, amount \in 0..MaxAmount :
        reverse_pledge_load(w, user, request_id, amount)

BidLoad ==
    \E w \in Workers, user \in Actors, request_id \in 1..MaxDeals, ask_amount \in 0..MaxAmount :
        bid_load(w, user, request_id, ask_amount)

ReverseRefresh == \E w \in Workers : reverse_refresh(w)

ReverseClose == \E w \in Workers : reverse_close(w)

ReverseCommit == \E w \in Workers : reverse_commit(w)

\* An open request as the sequential handlers leave it: no bid, or a bid that
\* the pledges have not reached
InitConcReverse ==
    /\ now = 0
    /\ \E ask_amount \in 0..MaxAmount,
          pledges \in {<<>>, <<[supporter_id |-> "bob", amount |-> 1]>>} :
        /\ ask_amount = 0 \/ SumAmounts(pledges) < ask_amount
        /\ requests = (1 :> [new_reverse("alice", "open", NoGroup, {}, 0) EXCEPT
                               !.pledges = pledges,
                               !.bids = IF ask_amount = 0 THEN <<>>
                                        ELSE <<[bidder_id |-> "alice",
                                                ask_amount |-> ask_amount,
                                                created_at |-> 0, active |-> TRUE]>>])
    /\ requestCount = 1
    /\ memberships = [u \in Users |-> IF u = "bob" THEN "pending" ELSE "accepted"]
    /\ threads = <<>>
    /\ threadCount = 0
    /\ dealLocks = <<>>
    /\ balanceEntries = <<>>
    /\ sessions = [w \in Workers |-> IdleReverseSession]
    /\ probe = NoProbe

NextConcReverse ==
    \/ Tick
    \/ ReversePledgeLoad
    \/ BidLoad
    \/ ReverseRefresh
    \/ ReverseClose
    \/ ReverseCommit

SpecConcReverse == InitConcReverse /\ [][NextConcReverse]_vars

\* ---------------------------------------------------------------- properties
\* The rows of a table that belong to one deal
LocksOf(locks, deal_type, deal_id) ==
    {i \in 1..Len(locks) : locks[i].deal_type = deal_type /\ locks[i].deal_id = deal_id}

EntriesOf(entries, deal_type, deal_id) ==
    SelectSeq(entries, LAMBDA e : e.deal_type = deal_type /\ e.deal_id = deal_id)

\* Who owes how much, entry by entry and pledge by pledge
Debts(entries) == [i \in 1..Len(entries) |-> <<entries[i].payer_id, entries[i].amount>>]

Dues(pledges) == [i \in 1..Len(pledges) |-> <<pledges[i].supporter_id, pledges[i].amount>>]

\* The ledger entries a settlement owes to payee_id: one open entry per pledge
OwedEntries(deal_type, deal_id, payee_id, pledges) ==
    [i \in 1..Len(pledges) |->
        [deal_type |-> deal_type, deal_id |-> deal_id,
         payer_id |-> pledges[i].supporter_id, payee_id |-> payee_id,
         amount |-> pledges[i].amount, status |-> "open"]]

PledgedTotal(deal) == SumAmounts(deal.pledges)

StatusOf(thread) == thread_status(thread, PledgedTotal(thread))

\* C1: after any sequence of completed operations every deal has at most one
\* Deal Lock, and a settled deal that still exists has exactly one ledger entry
\* per pledge, with the pledge's supporter as payer and the pledge's amount.
C1_AtMostOnceSettlement ==
    /\ \A deal_type \in DealTypes, deal_id \in 1..MaxDeals :
           Cardinality(LocksOf(dealLocks, deal_type, deal_id)) <= 1
    /\ \A t \in DOMAIN threads :
           LocksOf(dealLocks, "thread", t) # {} =>
               Debts(EntriesOf(balanceEntries, "thread", t)) = Dues(threads[t].pledges)
    /\ \A r \in DOMAIN requests :
           LocksOf(dealLocks, "reverse", r) # {} =>
               Debts(EntriesOf(balanceEntries, "reverse", r)) = Dues(requests[r].pledges)

\* A settled thread with two pledges
C1_Witness ==
    \E t \in DOMAIN threads :
        /\ Cardinality(LocksOf(dealLocks, "thread", t)) = 1
        /\ Len(threads[t].pledges) = 2
        /\ Len(EntriesOf(balanceEntries, "thread", t)) = 2

\* A pledge by user of amount is the step from before to after
PledgeAdded(before, after, user, amount) ==
    after = add_pledge(before, user, amount)

\* C3: the pledged total of a thread never exceeds its target; a pledge above
\* the remaining amount is rejected and adds nothing; a pledge of exactly the
\* remaining amount by an allowed actor on an open thread is accepted and makes
\* the thread funded.
C3_Ceiling ==
    \A t \in DOMAIN threads :
        LET remaining == threads[t].target_amount - PledgedTotal(threads[t])
        IN /\ PledgedTotal(threads[t]) <= threads[t].target_amount
           /\ \A user \in Users, amount \in 1..(MaxTarget + 1) :
                /\ amount > remaining => create_thread_pledge_code(user, t, amount) # 201
                /\ (/\ amount = remaining
                    /\ StatusOf(threads[t]) = "open"
                    /\ thread_user_allowed(threads[t], user))
                   => create_thread_pledge_code(user, t, amount) = 201

C3_Steps ==
    \A t \in DOMAIN threads \cap DOMAIN threads' :
        /\ Len(threads'[t].pledges) <= Len(threads[t].pledges) + 1
        /\ \A user \in Users, amount \in 1..(MaxTarget + 1) :
             PledgeAdded(threads[t], threads'[t], user, amount) =>
                /\ amount <= threads[t].target_amount - PledgedTotal(threads[t])
                /\ amount = threads[t].target_amount - PledgedTotal(threads[t])
                       => thread_status(threads'[t], PledgedTotal(threads'[t])) = "funded"

C3_RejectDontTruncate == []C3_Ceiling /\ [][C3_Steps]_vars

\* A thread filled to its target by a pledge of exactly the remaining amount,
\* where any further pledge would overshoot
C3_Witness ==
    \E t \in DOMAIN threads :
        /\ Len(threads[t].pledges) = 2
        /\ PledgedTotal(threads[t]) = threads[t].target_amount
        /\ StatusOf(threads[t]) = "funded"
        /\ create_thread_pledge_code("alice", t, 1) = 400

\* C4: for every deal a Deal Lock exists if and only if a ledger entry of the
\* deal exists, also after a handler that raised and was rolled back.
C4_LockWithLedger ==
    \A deal_type \in DealTypes, deal_id \in 1..MaxDeals :
        LocksOf(dealLocks, deal_type, deal_id) # {}
            <=> Len(EntriesOf(balanceEntries, deal_type, deal_id)) > 0

\* A settled reverse request: its lock and its entries are both there
C4_Witness ==
    \E r \in DOMAIN requests :
        /\ LocksOf(dealLocks, "reverse", r) # {}
        /\ Len(EntriesOf(balanceEntries, "reverse", r)) > 0

\* C5: _thread_status is committed_current if committed_current is set; else
\* funded if the pledged total reaches the target; else expired if the clock is
\* past the deadline; else open.
C5_StatusFirstMatch ==
    probe.call = "thread_status" /\ probe.done =>
        LET thread == threads[1]
            committed == thread.committed_current
            reached == probe.pledged_total >= thread.target_amount
            late == now > thread.deadline_at
        IN /\ committed => probe.result = "committed_current"
           /\ ~committed /\ reached => probe.result = "funded"
           /\ ~committed /\ ~reached /\ late => probe.result = "expired"
           /\ ~committed /\ ~reached /\ ~late => probe.result = "open"
           /\ committed /\ late => probe.result = "committed_current"
           /\ ~committed /\ reached /\ late => probe.result = "funded"

\* A committed thread past its deadline whose status was derived
C5_Witness ==
    /\ probe.call = "thread_status"
    /\ probe.done
    /\ threads[1].committed_current
    /\ now > threads[1].deadline_at
    /\ probe.pledged_total < threads[1].target_amount
    /\ probe.result = "committed_current"

\* C6: the step that settles a thread (it had no Deal Lock and gets one) writes
\* exactly one lock and appends, for every pledge of the thread, one open
\* ledger entry from the pledge's supporter to the thread creator over the
\* pledge's amount, and nothing else.
C6_Steps ==
    \A t \in DOMAIN threads' :
        LocksOf(dealLocks, "thread", t) = {} /\ LocksOf(dealLocks', "thread", t) # {} =>
            /\ Cardinality(LocksOf(dealLocks', "thread", t)) = 1
            /\ thread_status(threads'[t], PledgedTotal(threads'[t]))
                   \in {"funded", "committed_current"}
            /\ balanceEntries' = balanceEntries \o
                   OwedEntries("thread", t, threads'[t].creator_id, threads'[t].pledges)

C6_ThreadSettlementEntries == [][C6_Steps]_vars

\* Target 3 met by pledges of 1 and then 2: one lock, two entries (1 and 2)
\* payable to the creator
C6_Witness ==
    \E t \in DOMAIN threads :
        /\ threads[t].target_amount = 3
        /\ Dues(threads[t].pledges) = <<(<<"bob", 2>>), (<<"bob", 1>>)>>
        /\ Cardinality(LocksOf(dealLocks, "thread", t)) = 1
        /\ balanceEntries = OwedEntries("thread", t, threads[t].creator_id, threads[t].pledges)
        /\ threads[t].creator_id = "alice"

\* C7: a thread pledge is accepted only on an open thread, from an actor the
\* audience gate allows, for an amount within the remaining amount; any other
\* pledge request is rejected and leaves the pledges, the locks and the ledger
\* as they were; every pledge on a funded thread is rejected.
C7_Gate ==
    \A t \in DOMAIN threads, user \in Actors, amount \in 0..(MaxTarget + 1) :
        /\ create_thread_pledge_code(user, t, amount) = 201 =>
              /\ user \in Users
              /\ StatusOf(threads[t]) = "open"
              /\ thread_user_allowed(threads[t], user)
              /\ amount <= threads[t].target_amount - PledgedTotal(threads[t])
        /\ StatusOf(threads[t]) = "funded" => create_thread_pledge_code(user, t, amount) # 201

C7_Steps ==
    /\ \A t \in DOMAIN threads \cap DOMAIN threads' :
          threads'[t].pledges # threads[t].pledges =>
              \E user \in Users, amount \in 1..MaxAmount :
                  /\ threads'[t].pledges = add_pledge(threads[t], user, amount).pledges
                  /\ StatusOf(threads[t]) = "open"
                  /\ thread_user_allowed(threads[t], user)
                  /\ amount <= threads[t].target_amount - PledgedTotal(threads[t])
    /\ \A t \in 1..MaxDeals, user \in Actors, amount \in 0..MaxAmount :
          (/\ create_thread_pledge_code(user, t, amount) # 201
           /\ create_thread_pledge(user, t, amount, FALSE))
              => UNCHANGED <<threads, dealLocks, balanceEntries>>

C7_PledgeAcceptance == []C7_Gate /\ [][C7_Steps]_vars

\* An expired thread with a pledge and room left, where the creator's next
\* pledge is refused
C7_Witness ==
    \E t \in DOMAIN threads :
        /\ StatusOf(threads[t]) = "expired"
        /\ Len(threads[t].pledges) = 1
        /\ thread_user_allowed(threads[t], threads[t].creator_id)
        /\ create_thread_pledge_code(threads[t].creator_id, t, 1) = 400

\* C8: a bid or a pledge on an open reverse request closes it exactly when the
\* pledged total has reached the ask of the lowest active bid: the status
\* becomes closed, the winner is that bid, one lock is written and one open
\* ledger entry per pledge is appended, from the pledge's supporter to that
\* bid's bidder; otherwise the request stays open without a winner and neither
\* locks nor ledger change.
C8_Steps ==
    \A r \in DOMAIN requests \cap DOMAIN requests' :
        (/\ requests[r].status = "open"
         /\ \/ requests'[r].bids # requests[r].bids
            \/ requests'[r].pledges # requests[r].pledges) =>
            LET req == requests'[r]
                low == lowest_active_bid(req.bids)
            IN IF /\ low # {}
                  /\ \A b \in low : PledgedTotal(req) >= req.bids[b].ask_amount
               THEN /\ req.status = "closed"
                    /\ req.winner_bid_id \in low
                    /\ dealLocks' = Append(dealLocks, [deal_type |-> "reverse", deal_id |-> r])
                    /\ balanceEntries' = balanceEntries \o
                           OwedEntries("reverse", r, req.bids[req.winner_bid_id].bidder_id,
                                       req.pledges)
               ELSE /\ req.status = "open"
                    /\ req.winner_bid_id = NoBid
                    /\ dealLocks' = dealLocks
                    /\ balanceEntries' = balanceEntries

C8_ReverseSettlement == [][C8_Steps]_vars

\* A request closed on the cheaper of two bids, with its pledge owed to that
\* bid's bidder
C8_Witness ==
    \E r \in DOMAIN requests :
        LET req == requests[r]
        IN /\ req.status = "closed"
           /\ Len(req.bids) = 2
           /\ req.winner_bid_id = 2
           /\ req.bids[2].ask_amount < req.bids[1].ask_amount
           /\ Len(req.pledges) = 1
           /\ balanceEntries = OwedEntries("reverse", r, req.bids[2].bidder_id, req.pledges)

\* C9: _lowest_active_bid returns none when no bid is active; otherwise an
\* active bid with the smallest ask_amount among the active bids and, among
\* those with that ask_amount, the earliest created_at.  With asks B:1 (at
\* time 1), C:1 (at time 0), D:1 (at time 1) and A:2 it returns C.
ExampleBids ==
    <<[bidder_id |-> "alice", ask_amount |-> 1, created_at |-> 1, active |-> TRUE],
      [bidder_id |-> "alice", ask_amount |-> 1, created_at |-> 0, active |-> TRUE],
      [bidder_id |-> "alice", ask_amount |-> 1, created_at |-> 1, active |-> TRUE],
      [bidder_id |-> "alice", ask_amount |-> 2, created_at |-> 0, active |-> TRUE]>>

C9_LowestActiveBid ==
    probe.call = "lowest_active_bid" /\ probe.done =>
        LET bids == requests[1].bids
            active == {i \in 1..Len(bids) : bids[i].active}
            low == probe.result
        IN /\ active = {} <=> low = NoBid
           /\ active # {} =>
                /\ low \in active
                /\ \A j \in active : bids[low].ask_amount <= bids[j].ask_amount
                /\ \A j \in active : bids[j].ask_amount = bids[low].ask_amount
                                         => bids[low].created_at <= bids[j].created_at
           /\ bids = ExampleBids => low = 2

C9_Witness ==
    /\ probe.call = "lowest_active_bid"
    /\ probe.done
    /\ requests[1].bids = ExampleBids
    /\ probe.result = 2

\* C10: a bidder never has two active bids on a request; a bid by a bidder who
\* has an active bid rewrites the ask_amount and created_at of that bid and
\* adds no bid, and a bid by anyone else adds one bid at the end.
C10_OneActive ==
    \A r \in DOMAIN requests, user \in Users :
        Cardinality(own_bids(requests[r], user)) <= 1

C10_Steps ==
    \A r \in DOMAIN requests \cap DOMAIN requests' :
        LET old == requests[r].bids
            new == requests'[r].bids
        IN old # new =>
            \/ /\ Len(new) = Len(old) + 1
               /\ SubSeq(new, 1, Len(old)) = old
               /\ own_bids(requests[r], new[Len(new)].bidder_id) = {}
               /\ new[Len(new)].active
            \/ /\ Len(new) = Len(old)
               /\ \E i \in 1..Len(old) :
                    /\ \A j \in 1..Len(old) : j # i => new[j] = old[j]
                    /\ own_bids(requests[r], old[i].bidder_id) = {i}
                    /\ new[i].bidder_id = old[i].bidder_id
                    /\ new[i].active
                    /\ new[i].created_at = now

C10_OneActiveBidPerBidder == []C10_OneActive /\ [][C10_Steps]_vars

\* Two bidders, and the first bid carries a later time than the second: it was
\* submitted again after the second arrived
C10_Witness ==
    \E r \in DOMAIN requests :
        /\ Len(requests[r].bids) = 2
        /\ requests[r].bids[1].created_at > requests[r].bids[2].created_at
        /\ requests[r].bids[1].bidder_id # requests[r].bids[2].bidder_id

\* C11: for every closed reverse request the pledged total does not exceed the
\* ask_amount of the winning bid.
C11_PledgesWithinAsk ==
    \A r \in DOMAIN requests :
        requests[r].status = "closed" =>
            PledgedTotal(requests[r]) <= requests[r].bids[requests[r].winner_bid_id].ask_amount

\* C12: a pledge on a reverse request is accepted only while the request is
\* open and, when a lowest active bid exists, only for an amount within that
\* bid's ask_amount less the pledged total; a pledge request that fails a check
\* leaves the requests (pledges, bids, status, winner), the locks and the ledger
\* as they were.
C12_Gate ==
    \A r \in DOMAIN requests, user \in Actors, amount \in 0..(MaxAmount + 1) :
        create_reverse_pledge_code(user, r, amount) = 201 =>
            /\ requests[r].status = "open"
            /\ \A b \in lowest_active_bid(requests[r].bids) :
                   amount <= requests[r].bids[b].ask_amount - PledgedTotal(requests[r])

C12_Steps ==
    /\ \A r \in DOMAIN requests \cap DOMAIN requests' :
          requests'[r].pledges # requests[r].pledges =>
              \E user \in Users, amount \in 1..MaxAmount :
                  /\ requests'[r].pledges = add_pledge(requests[r], user, amount).pledges
                  /\ requests[r].status = "open"
                  /\ \A b \in lowest_active_bid(requests[r].bids) :
                         amount <= requests[r].bids[b].ask_amount - PledgedTotal(requests[r])
    /\ \A r \in 1..MaxDeals, user \in Actors, amount \in 0..MaxAmount :
          (/\ create_reverse_pledge_code(user, r, amount) # 201
           /\ create_reverse_pledge(user, r, amount, FALSE))
              => UNCHANGED <<requests, dealLocks, balanceEntries>>

C12_ReversePledgeAcceptance == []C12_Gate /\ [][C12_Steps]_vars

\* An open request with a bid of 2 and a pledge of 1: a pledge of 2 is refused,
\* a pledge of 1 is accepted
C12_Witness ==
    \E r \in DOMAIN requests :
        /\ requests[r].status = "open"
        /\ lowest_active_bid(requests[r].bids) # {}
        /\ \A b \in lowest_active_bid(requests[r].bids) : requests[r].bids[b].ask_amount = 2
        /\ Dues(requests[r].pledges) = <<(<<"bob", 1>>)>>
        /\ create_reverse_pledge_code("alice", r, 2) = 400
        /\ create_reverse_pledge_code("alice", r, 1) = 201

\* The entries of a ledger with the acknowledgement taken out
Unacknowledged(entries) ==
    [i \in 1..Len(entries) |-> [entries[i] EXCEPT !.status = "open"]]

\* C13: a reverse request has a winner exactly when it is closed; on a closed
\* request every bid and every pledge is refused; and from a closed request on,
\* the request row (status, winner, bids with their ask_amount, pledges), its
\* lock and its ledger entries stay as they are, the acknowledgement of an entry
\* apart.
C13_Closed ==
    \A r \in DOMAIN requests :
        /\ requests[r].winner_bid_id # NoBid <=> requests[r].status = "closed"
        /\ requests[r].status \in {"open", "closed"}
        /\ requests[r].status = "closed" =>
              /\ requests[r].winner_bid_id \in 1..Len(requests[r].bids)
              /\ \A user \in Actors, amount \in 0..(MaxAmount + 1) :
                    /\ create_or_update_bid_code(user, r, amount) # 201
                    /\ create_reverse_pledge_code(user, r, amount) # 201

C13_Steps ==
    \A r \in DOMAIN requests :
        /\ r \in DOMAIN requests'
        /\ requests[r].winner_bid_id # NoBid => requests'[r].winner_bid_id = requests[r].winner_bid_id
        /\ requests[r].status = "closed" =>
              /\ requests'[r] = requests[r]
              /\ LocksOf(dealLocks', "reverse", r) = LocksOf(dealLocks, "reverse", r)
              /\ Unacknowledged(EntriesOf(balanceEntries', "reverse", r))
                     = Unacknowledged(EntriesOf(balanceEntries, "reverse", r))

C13_ClosureTerminal == []C13_Closed /\ [][C13_Steps]_vars

\* A closed request whose entry has been acknowledged since, with a bidder
\* other than the winner allowed to bid
C13_Witness ==
    \E r \in DOMAIN requests :
        /\ requests[r].status = "closed"
        /\ requests[r].winner_bid_id # NoBid
        /\ Len(requests[r].bids) = 2
        /\ \E i \in 1..Len(balanceEntries) :
              /\ balanceEntries[i].deal_type = "reverse"
              /\ balanceEntries[i].deal_id = r
              /\ balanceEntries[i].status = "received_declared"
        /\ create_or_update_bid_code("alice", r, 1) = 400

\* C14: commit_current succeeds exactly when the actor is the thread creator,
\* the thread is open or expired, the pledged total is above 0 and below the
\* target and committed_current is not set (so also on an expired thread);
\* the flag is set only from such a state, and a refused commit leaves the
\* threads, the locks and the ledger as they were.
C14_Gate ==
    \A t \in DOMAIN threads, user \in Actors :
        commit_current_code(user, t) = 200 <=>
            /\ user = threads[t].creator_id
            /\ StatusOf(threads[t]) \in {"open", "expired"}
            /\ 0 < PledgedTotal(threads[t])
            /\ PledgedTotal(threads[t]) < threads[t].target_amount
            /\ ~threads[t].committed_current

C14_Steps ==
    /\ \A t \in DOMAIN threads \cap DOMAIN threads' :
          ~threads[t].committed_current /\ threads'[t].committed_current =>
              /\ StatusOf(threads[t]) \in {"open", "expired"}
              /\ 0 < PledgedTotal(threads[t])
              /\ PledgedTotal(threads[t]) < threads[t].target_amount
              /\ commit_current_code(threads[t].creator_id, t) = 200
    /\ \A t \in 1..MaxDeals, user \in Actors :
          (/\ commit_current_code(user, t) # 200
           /\ commit_current(user, t, FALSE))
              => UNCHANGED <<threads, dealLocks, balanceEntries>>

C14_CommitCurrentGate == []C14_Gate /\ [][C14_Steps]_vars

\* A thread past its deadline committed by its creator at 1 of 2: settled, and
\* a further commit is refused to the creator (400) and to anyone else (403)
C14_Witness ==
    \E t \in DOMAIN threads :
        /\ threads[t].committed_current
        /\ now > threads[t].deadline_at
        /\ threads[t].committed_amount = 1
        /\ threads[t].target_amount = 2
        /\ threads[t].creator_id = "alice"
        /\ LocksOf(dealLocks, "thread", t) # {}
        /\ commit_current_code("alice", t) = 400
        /\ commit_current_code("bob", t) = 403

\* C15: committed_current never goes back to false; a commit on a committed
\* thread is refused; and the step that sets the flag leaves the thread with
\* status committed_current, records the pledged total, writes the thread's
\* lock and appends one open ledger entry per pledge, payable to the creator.
C15_Committed ==
    \A t \in DOMAIN threads :
        threads[t].committed_current =>
            /\ StatusOf(threads[t]) = "committed_current"
            /\ \A user \in Actors : commit_current_code(user, t) # 200
            /\ commit_current_code(threads[t].creator_id, t) = 400

C15_Steps ==
    \A t \in DOMAIN threads \cap DOMAIN threads' :
        /\ threads[t].committed_current => threads'[t].committed_current
        /\ ~threads[t].committed_current /\ threads'[t].committed_current =>
              /\ StatusOf(threads'[t]) = "committed_current"
              /\ threads'[t].pledges = threads[t].pledges
              /\ threads'[t].committed_amount = PledgedTotal(threads[t])
              /\ dealLocks' = Append(dealLocks, [deal_type |-> "thread", deal_id |-> t])
              /\ balanceEntries' = balanceEntries \o
                     OwedEntries("thread", t, threads[t].creator_id, threads[t].pledges)

C15_CommitOneShot == []C15_Committed /\ [][C15_Steps]_vars

\* A thread committed at 2 of 3 with two pledges: one lock, two entries
C15_Witness ==
    \E t \in DOMAIN threads :
        /\ threads[t].committed_current
        /\ threads[t].target_amount = 3
        /\ threads[t].committed_amount = 2
        /\ Len(threads[t].pledges) = 2
        /\ Cardinality(LocksOf(dealLocks, "thread", t)) = 1
        /\ balanceEntries = OwedEntries("thread", t, threads[t].creator_id, threads[t].pledges)

\* C16: on a ledger entry, declare_received by a logged-in user who is not the
\* payee returns 403 (so by the payer, when payer and payee differ); by the
\* payee it returns 200 while the entry is open and 400 afterwards; the
\* status of an entry moves only by a successful call, to received_declared,
\* and a refused call leaves the ledger as it was.
C16_Gate ==
    \A i \in 1..Len(balanceEntries), user \in Users :
        LET entry == balanceEntries[i]
        IN /\ user # entry.payee_id => declare_received_code(user, i) = 403
           /\ entry.payer_id # entry.payee_id => declare_received_code(entry.payer_id, i) = 403
           /\ user = entry.payee_id /\ entry.status = "open"
                  => declare_received_code(user, i) = 200
           /\ user = entry.payee_id /\ entry.status # "open"
                  => declare_received_code(user, i) = 400

C16_Steps ==
    /\ \A i \in 1..Len(balanceEntries) :
          (i \in 1..Len(balanceEntries') /\ balanceEntries'[i].status # balanceEntries[i].status) =>
              /\ balanceEntries[i].status = "open"
              /\ balanceEntries'[i].status = "received_declared"
              /\ declare_received_code(balanceEntries[i].payee_id, i) = 200
    /\ \A i \in 1..(Len(balanceEntries) + 1), user \in Actors :
          (/\ declare_received_code(user, i) # 200
           /\ declare_received(user, i, FALSE))
              => UNCHANGED balanceEntries

C17_Steps ==
    /\ Len(balanceEntries') >= Len(balanceEntries)
    /\ \A i \in 1..Len(balanceEntries) :
          /\ i \in 1..Len(balanceEntries')
          /\ balanceEntries'[i].deal_type = balanceEntries[i].deal_type
          /\ balanceEntries'[i].deal_id = balanceEntries[i].deal_id
          /\ balanceEntries'[i].payer_id = balanceEntries[i].payer_id
          /\ balanceEntries'[i].payee_id = balanceEntries[i].payee_id
          /\ balanceEntries'[i].amount = balanceEntries[i].amount
          /\ \/ balanceEntries'[i].status = balanceEntries[i].status
             \/ /\ balanceEntries[i].status = "open"
                /\ balanceEntries'[i].status = "received_declared"

C17_LedgerImmutable ==
    [](\A i \in 1..Len(balanceEntries) :
          balanceEntries[i].status \in {"open", "received_declared"})
    /\ [][C17_Steps]_vars

\* Two entries of a settled thread, the first acknowledged, after the thread
\* itself was deleted
C17_Witness ==
    /\ Len(balanceEntries) = 2
    /\ balanceEntries[1].status = "received_declared"
    /\ balanceEntries[2].status = "open"
    /\ balanceEntries[1].deal_type = "thread"
    /\ threads = <<>>

\* C18: the audience gate of a thread or a reverse request is true for mode
\* open; for mode group it is true exactly when the row has a group and the
\* user has an accepted membership in it; for mode specific it is true exactly
\* when the user is among the row's targets, whatever the user's membership;
\* and the call leaves every table as it was.
C18_Allowed ==
    probe.call = "user_allowed" /\ probe.done =>
        LET row == IF probe.kind = "thread" THEN threads[1] ELSE requests[1]
            accepted == /\ row.group_id = TheGroup
                        /\ memberships[probe.user] = "accepted"
        IN /\ row.audience_mode = "open" => probe.result
           /\ row.audience_mode = "group" =>
                 (probe.result <=> row.group_id # NoGroup /\ accepted)
           /\ row.audience_mode = "specific" =>
                 (probe.result <=> probe.user \in row.targets)

C18_Steps == probe' # probe => UNCHANGED <<now, db>>

C18_AudienceGate == []C18_Allowed /\ [][C18_Steps]_vars

\* A group thread that lists bob as a target while bob's membership is only
\* pending: the gate has refused bob
C18_Witness ==
    /\ probe.call = "user_allowed"
    /\ probe.done
    /\ probe.kind = "thread"
    /\ probe.user = "bob"
    /\ threads[1].audience_mode = "group"
    /\ threads[1].group_id = TheGroup
    /\ threads[1].targets = {"bob"}
    /\ memberships["bob"] = "pending"
    /\ ~probe.result

\* C19: the step that deletes a thread leaves no Deal Lock and no ledger entry
\* of that thread behind (its pledges go with the row); a delete that is
\* refused changes nothing.
C19_Steps ==
    /\ \A t \in DOMAIN threads :
          t \notin DOMAIN threads' =>
              /\ LocksOf(dealLocks', "thread", t) = {}
              /\ Len(EntriesOf(balanceEntries', "thread", t)) = 0
    /\ \A t \in 1..MaxDeals, user \in Actors :
          (/\ delete_thread_code(user, t) # 200
           /\ delete_thread(user, t, FALSE))
              => UNCHANGED db

C19_DeleteCascades == [][C19_Steps]_vars

\* C20: a call of any operation that returns an error leaves the persisted
\* tables (threads with targets and pledges, requests with targets, bids and
\* pledges, Deal Locks, ledger entries) as they were.
C20_Steps ==
    /\ \A creator \in Actors, target_amount \in 0..MaxTarget, deadline \in 0..MaxTime,
          audience_mode \in AudienceModes, group_id \in GroupRefs,
          target_usernames \in SUBSET Users :
          (/\ create_thread_code(creator, target_amount, deadline, audience_mode,
                                 group_id, target_usernames) # 201
           /\ create_thread(creator, target_amount, deadline, audience_mode,
                            group_id, target_usernames, FALSE))
              => UNCHANGED db
    /\ \A creator \in Actors, audience_mode \in AudienceModes, group_id \in GroupRefs,
          target_usernames \in SUBSET Users, seed_amount \in (-1)..MaxAmount :
          (/\ create_reverse_code(creator, audience_mode, group_id, target_usernames,
                                  seed_amount) # 201
           /\ create_reverse(creator, audience_mode, group_id, target_usernames,
                             seed_amount, FALSE))
              => UNCHANGED db
    /\ \A user \in Actors, deal_id \in 1..MaxDeals, amount \in 0..MaxAmount :
          /\ (/\ create_thread_pledge_code(user, deal_id, amount) # 201
              /\ create_thread_pledge(user, deal_id, amount, FALSE)) => UNCHANGED db
          /\ (/\ commit_current_code(user, deal_id) # 200
              /\ commit_current(user, deal_id, FALSE)) => UNCHANGED db
          /\ (/\ delete_thread_code(user, deal_id) # 200
              /\ delete_thread(user, deal_id, FALSE)) => UNCHANGED db
          /\ (/\ create_or_update_bid_code(user, deal_id, amount) # 201
              /\ create_or_update_bid(user, deal_id, amount, FALSE)) => UNCHANGED db
          /\ (/\ create_reverse_pledge_code(user, deal_id, amount) # 201
              /\ create_reverse_pledge(user, deal_id, amount, FALSE)) => UNCHANGED db
    /\ \A user \in Actors, entry_id \in 1..(Len(balanceEntries) + 1) :
          (/\ declare_received_code(user, entry_id) # 200
           /\ declare_received(user, entry_id, FALSE)) => UNCHANGED db

C20_RejectedIsNoOp == [][C20_Steps]_vars

\* C21: every thread and every reverse request has targets exactly when its
\* audience_mode is specific.
C21_TargetsIffSpecific ==
    /\ \A t \in DOMAIN threads :
          threads[t].targets # {} <=> threads[t].audience_mode = "specific"
    /\ \A r \in DOMAIN requests :
          requests[r].targets # {} <=> requests[r].audience_mode = "specific"

\* C22: a call without a user is refused by every writing operation, with 401
\* once the payload has passed the checks the handler makes before it opens its
\* session (400 from those checks otherwise), and changes no table; the lists
\* of threads and of reverse requests are served to it, with every status.
C22_Refused ==
    /\ \A target_amount \in 0..MaxTarget, deadline \in 0..MaxTime,
          audience_mode \in AudienceModes, group_id \in GroupRefs,
          target_usernames \in SUBSET Users :
          create_thread_code(NoUser, target_amount, deadline, audience_mode,
                             group_id, target_usernames)
              = IF target_amount < 1 THEN 400 ELSE 401
    /\ \A audience_mode \in AudienceModes, group_id \in GroupRefs,
          target_usernames \in SUBSET Users, seed_amount \in (-1)..MaxAmount :
          create_reverse_code(NoUser, audience_mode, group_id, target_usernames, seed_amount)
              = IF seed_amount < 0 THEN 400 ELSE 401
    /\ \A deal_id \in 1..MaxDeals, amount \in 0..MaxAmount :
          /\ create_thread_pledge_code(NoUser, deal_id, amount) = IF amount < 1 THEN 400 ELSE 401
          /\ create_reverse_pledge_code(NoUser, deal_id, amount) = IF amount < 1 THEN 400 ELSE 401
          /\ create_or_update_bid_code(NoUser, deal_id, amount) = IF amount < 1 THEN 400 ELSE 401
          /\ commit_current_code(NoUser, deal_id) = 401
          /\ delete_thread_code(NoUser, deal_id) = 401
    /\ \A entry_id \in 1..(Len(balanceEntries) + 1) :
          declare_received_code(NoUser, entry_id) = 401
    /\ get_threads(NoUser).code = 200
    /\ \A t \in DOMAIN threads : get_threads(NoUser).threads[t].status = StatusOf(threads[t])
    /\ list_reverse(NoUser).code = 200
    /\ \A r \in DOMAIN requests : list_reverse(NoUser).requests[r].status = requests[r].status

C22_Steps ==
    /\ \A target_amount \in 0..MaxTarget, deadline \in 0..MaxTime,
          audience_mode \in AudienceModes, group_id \in GroupRefs,
          target_usernames \in SUBSET Users :
          create_thread(NoUser, target_amount, deadline, audience_mode, group_id,
                        target_usernames, FALSE) => UNCHANGED db
    /\ \A audience_mode \in AudienceModes, group_id \in GroupRefs,
          target_usernames \in SUBSET Users, seed_amount \in (-1)..MaxAmount :
          create_reverse(NoUser, audience_mode, group_id, target_usernames,
                         seed_amount, FALSE) => UNCHANGED db
    /\ \A deal_id \in 1..MaxDeals, amount \in 0..MaxAmount :
          /\ create_thread_pledge(NoUser, deal_id, amount, FALSE) => UNCHANGED db
          /\ create_reverse_pledge(NoUser, deal_id, amount, FALSE) => UNCHANGED db
          /\ create_or_update_bid(NoUser, deal_id, amount, FALSE) => UNCHANGED db
          /\ commit_current(NoUser, deal_id, FALSE) => UNCHANGED db
          /\ delete_thread(NoUser, deal_id, FALSE) => UNCHANGED db
    /\ \A entry_id \in 1..(Len(balanceEntries) + 1) :
          declare_received(NoUser, entry_id, FALSE) => UNCHANGED db
    /\ \A t \in DOMAIN threads \cap DOMAIN threads' :
          \A i \in 1..Len(threads'[t].pledges) : threads'[t].pledges[i].supporter_id # NoUser

RECURSIVE AmountOver(_, _)
AmountOver(entries, positions) ==
    IF positions = {} THEN 0
    ELSE LET i == CHOOSE x \in positions : TRUE
         IN entries[i].amount + AmountOver(entries, positions \ {i})

\* C23: for every user the balance reports as owed the sum of the amounts of
\* the open entries the user is payer of, and as to receive the sum over the
\* open entries the user is payee of; the acknowledgement of an entry lowers
\* the payer's owed and the payee's to-receive by the entry's amount and
\* leaves every other total as it was.
C23_Totals ==
    \A user \in Users :
        /\ my_balance_code(user) = 200
        /\ my_balance(user).owes =
               AmountOver(balanceEntries,
                          {i \in 1..Len(balanceEntries) :
                               /\ balanceEntries[i].payer_id = user
                               /\ balanceEntries[i].status = "open"})
        /\ my_balance(user).toReceive =
               AmountOver(balanceEntries,
                          {i \in 1..Len(balanceEntries) :
                               /\ balanceEntries[i].payee_id = user
                               /\ balanceEntries[i].status = "open"})

C23_Steps ==
    \A i \in 1..Len(balanceEntries) :
        (/\ i \in 1..Len(balanceEntries')
         /\ balanceEntries[i].status = "open"
         /\ balanceEntries'[i].status = "received_declared") =>
            LET entry == balanceEntries[i]
            IN \A user \in Users :
                /\ my_balance(user)'.owes =
                       my_balance(user).owes - (IF user = entry.payer_id THEN entry.amount ELSE 0)
                /\ my_balance(user)'.toReceive =
                       my_balance(user).toReceive - (IF user = entry.payee_id THEN entry.amount ELSE 0)

C23_Balance == []C23_Totals /\ [][C23_Steps]_vars

\* Two entries owed by bob to alice, 1 acknowledged and 2 still open: bob owes
\* 2 and alice is to receive 2
C23_Witness ==
    /\ Len(balanceEntries) = 2
    /\ \A i \in 1..2 : balanceEntries[i].payer_id = "bob" /\ balanceEntries[i].payee_id = "alice"
    /\ \E i, j \in 1..2 :
          /\ balanceEntries[i].status = "received_declared" /\ balanceEntries[i].amount = 1
          /\ balanceEntries[j].status = "open" /\ balanceEntries[j].amount = 2
    /\ my_balance("bob").owes = 2
    /\ my_balance("alice").toReceive = 2
    /\ my_balance("alice").owes = 0

\* The active bids of a request
ActiveBids(req) == {i \in 1..Len(req.bids) : req.bids[i].active}

\* C25: no open reverse request has an active bid whose ask_amount is at or
\* below the pledged total; a bid or re-bid that brings the lowest ask to or
\* below the pledged total closes the request in that step, with a lowest bid
\* as winner.
C25_NoSettleableOpen ==
    \A r \in DOMAIN requests :
        requests[r].status = "open" =>
            \A i \in ActiveBids(requests[r]) :
                requests[r].bids[i].ask_amount > PledgedTotal(requests[r])

C25_Steps ==
    \A r \in DOMAIN requests \cap DOMAIN requests' :
        (/\ requests'[r].bids # requests[r].bids
         /\ \E i \in ActiveBids(requests'[r]) :
               requests'[r].bids[i].ask_amount <= PledgedTotal(requests[r])) =>
            /\ requests[r].status = "open"
            /\ requests'[r].status = "closed"
            /\ requests'[r].winner_bid_id \in lowest_active_bid(requests'[r].bids)
            /\ requests'[r].pledges = requests[r].pledges
            /\ LocksOf(dealLocks', "reverse", r) # {}

C25_SettleAfterEveryMutation == []C25_NoSettleableOpen /\ [][C25_Steps]_vars

\* A request holding two pledges of 1 that a bid of 2, the first bid, closed
C25_Witness ==
    \E r \in DOMAIN requests :
        /\ requests[r].status = "closed"
        /\ PledgedTotal(requests[r]) = 2
        /\ Len(requests[r].pledges) = 2
        /\ Len(requests[r].bids) = 1
        /\ requests[r].bids[1].ask_amount = 2
        /\ requests[r].winner_bid_id = 1

\* C26: a reverse request without an active bid is open, has no winner, no
\* Deal Lock and no ledger entry, whatever its pledged total (seed included),
\* and takes a pledge of any valid amount from any user.
C26_NoBidNoSettlement ==
    \A r \in DOMAIN requests :
        ActiveBids(requests[r]) = {} =>
            /\ requests[r].status = "open"
            /\ requests[r].winner_bid_id = NoBid
            /\ LocksOf(dealLocks, "reverse", r) = {}
            /\ Len(EntriesOf(balanceEntries, "reverse", r)) = 0
            /\ \A user \in Users, amount \in 1..(MaxAmount + 1) :
                  create_reverse_pledge_code(user, r, amount) = 201

\* A request seeded with 2 that took a further pledge of 2 and has no bid
C26_Witness ==
    \E r \in DOMAIN requests :
        /\ requests[r].bids = <<>>
        /\ Dues(requests[r].pledges) =
               <<(<<"bob", 2>>), (<<requests[r].creator_id, 2>>)>>
        /\ requests[r].status = "open"
        /\ dealLocks = <<>>

\* C27: a bid is accepted only on an open request and from a user the
\* request's audience gate allows; every change of a request's bids is such a
\* bid, and a bid that is refused leaves the requests (bids, status, winner),
\* the locks and the ledger as they were.
C27_Gate ==
    \A r \in DOMAIN requests, user \in Actors, ask_amount \in 0..(MaxAmount + 1) :
        /\ create_or_update_bid_code(user, r, ask_amount) = 201 =>
              /\ user \in Users
              /\ requests[r].status = "open"
              /\ reverse_user_allowed_to_bid(requests[r], user)
        /\ (user \in Users /\ ask_amount >= 1 /\ requests[r].status = "open"
               /\ ~reverse_user_allowed_to_bid(requests[r], user))
              => create_or_update_bid_code(user, r, ask_amount) = 403
        /\ (user \in Users /\ ask_amount >= 1 /\ requests[r].status # "open")
              => create_or_update_bid_code(user, r, ask_amount) = 400

C27_Steps ==
    /\ \A r \in DOMAIN requests \cap DOMAIN requests' :
          requests'[r].bids # requests[r].bids =>
              /\ requests[r].status = "open"
              /\ \E user \in Users, ask_amount \in 1..MaxAmount :
                    /\ reverse_user_allowed_to_bid(requests[r], user)
                    /\ requests'[r].bids \in
                           {req.bids : req \in with_bid(requests[r], user, ask_amount)}
    /\ \A r \in 1..MaxDeals, user \in Actors, ask_amount \in 0..MaxAmount :
          (/\ create_or_update_bid_code(user, r, ask_amount) # 201
           /\ create_or_update_bid(user, r, ask_amount, FALSE))
              => UNCHANGED <<requests, dealLocks, balanceEntries>>

C27_BidAcceptance == []C27_Gate /\ [][C27_Steps]_vars

\* An open group request with a bid of alice, on which alice may bid again and
\* bob, whose membership is pending, may not
C27_Witness ==
    \E r \in DOMAIN requests :
        /\ requests[r].status = "open"
        /\ requests[r].audience_mode = "group"
        /\ Len(requests[r].bids) = 1
        /\ requests[r].bids[1].bidder_id = "alice"
        /\ memberships["bob"] = "pending"
        /\ create_or_update_bid_code("alice", r, 1) = 201
        /\ create_or_update_bid_code("bob", r, 1) = 403

\* C29: a thread has a Deal Lock exactly when its status is funded or
\* committed_current.
C29_LockedIffSettled ==
    \A t \in DOMAIN threads :
        LocksOf(dealLocks, "thread", t) # {}
            <=> StatusOf(threads[t]) \in {"funded", "committed_current"}

\* A funded thread past its deadline, with its lock
C29_Witness ==
    \E t \in DOMAIN threads :
        /\ StatusOf(threads[t]) = "funded"
        /\ now > threads[t].deadline_at
        /\ Cardinality(LocksOf(dealLocks, "thread", t)) = 1
        /\ ~threads[t].committed_current

\* C30: from one state to the next the status of a thread stays as it is or
\* moves open -> funded, open -> expired, open -> committed_current or
\* expired -> committed_current; funded and committed_current are never left
\* and expired never turns into funded.
StatusMoves ==
    {<<"open", "funded">>, <<"open", "expired">>, <<"open", "committed_current">>,
     <<"expired", "committed_current">>}

C30_Steps ==
    \A t \in DOMAIN threads \cap DOMAIN threads' :
        LET before == StatusOf(threads[t])
            after == StatusOf(threads[t])'
        IN /\ before = after \/ <<before, after>> \in StatusMoves
           /\ before \in {"funded", "committed_current"} => after = before
           /\ before = "expired" => after # "funded"

C30_StatusMoves == [][C30_Steps]_vars /\ [][now' >= now]_vars

\* An expired thread holding two pledges made while it was open
C30_Witness ==
    \E t \in DOMAIN threads :
        /\ StatusOf(threads[t]) = "expired"
        /\ Len(threads[t].pledges) = 2
        /\ \A user \in Users : create_thread_pledge_code(user, t, 1) = 400

\* C28: a bid by a user who has an active bid adds no bid: it rewrites that
\* bid's ask_amount and sets its created_at to the time of the call.  So when
\* A's bid is the lowest, B's bid has the same ask_amount and a later time,
\* and A then bids the same amount again at a still later time, the lowest
\* active bid is B's and A's bid is the same record as before.
C28_Steps ==
    \A r \in DOMAIN requests \cap DOMAIN requests' :
        LET old == requests[r].bids
            new == requests'[r].bids
        IN /\ (old # new /\ Len(new) = Len(old)) =>
                \E a \in 1..Len(old) :
                    /\ \A j \in 1..Len(old) : j # a => new[j] = old[j]
                    /\ new[a].bidder_id = old[a].bidder_id
                    /\ new[a].created_at = now
                    /\ \E ask_amount \in 1..MaxAmount :
                          new[a] = [old[a] EXCEPT !.ask_amount = ask_amount,
                                                  !.created_at = now]
           /\ \A a, b \in 1..Len(old) :
                (/\ a # b
                 /\ old[a].ask_amount = old[b].ask_amount
                 /\ old[a].created_at < old[b].created_at
                 /\ lowest_active_bid(old) = {a}
                 /\ now > old[b].created_at
                 /\ create_or_update_bid(old[a].bidder_id, r, old[a].ask_amount, FALSE))
                    => /\ lowest_active_bid(new) = {b}
                       /\ Len(new) = Len(old)
                       /\ new[a].bidder_id = old[a].bidder_id
                       /\ new[a].ask_amount = old[a].ask_amount
                       /\ new[a].created_at = now

C28_RebidTakesLatestTime == [][C28_Steps]_vars

\* A bid at time 0, B bid the same at time 1, A bid it again at time 2: A's
\* bid is still the first record, and the lowest active bid is B's
C28_Witness ==
    \E r \in DOMAIN requests :
        /\ now = 2
        /\ Len(requests[r].bids) = 2
        /\ requests[r].bids[1].bidder_id = "alice"
        /\ requests[r].bids[2].bidder_id = "bob"
        /\ requests[r].bids[1].ask_amount = requests[r].bids[2].ask_amount
        /\ requests[r].bids[1].created_at = 2
        /\ requests[r].bids[2].created_at = 1
        /\ lowest_active_bid(requests[r].bids) = {2}

\* C24: when two requests (pledge and bid, or two pledges) on one reverse
\* request have both finished, a closed request has exactly one Deal Lock, a
\* winner, and exactly one ledger entry per recorded pledge.
C24_ConcurrentReverse ==
    (\A w \in Workers : sessions[w].pc = "done") =>
        \A r \in DOMAIN requests :
            requests[r].status = "closed" =>
                /\ Cardinality(LocksOf(dealLocks, "reverse", r)) = 1
                /\ requests[r].winner_bid_id \in 1..Len(requests[r].bids)
                /\ Len(EntriesOf(balanceEntries, "reverse", r)) = Len(requests[r].pledges)

\* C31: a committed thread records the sum of its pledges as committed amount,
\* strictly between 0 and the target, right after the commit and in every
\* later state (its pledges and committed amount no longer change); a thread
\* that is not committed has committed amount 0.
C31_Recorded ==
    \A t \in DOMAIN threads :
        IF threads[t].committed_current
        THEN /\ threads[t].committed_amount = PledgedTotal(threads[t])
             /\ 0 < threads[t].committed_amount
             /\ threads[t].committed_amount < threads[t].target_amount
        ELSE threads[t].committed_amount = 0

C31_Steps ==
    \A t \in DOMAIN threads :
        (threads[t].committed_current /\ t \in DOMAIN threads') =>
            /\ threads[t].committed_current'
            /\ threads[t].committed_amount' = threads[t].committed_amount
            /\ threads[t].pledges' = threads[t].pledges

C31_CommittedAmount == []C31_Recorded /\ [][C31_Steps]_vars

\* A thread committed at 1 of 3 by its creator, settled with one ledger entry,
\* on which a further pledge of 1 is refused.
C31_Witness ==
    \E t \in DOMAIN threads :
        /\ threads[t].committed_current
        /\ threads[t].target_amount = 3
        /\ threads[t].committed_amount = 1
        /\ PledgedTotal(threads[t]) = 1
        /\ Len(EntriesOf(balanceEntries, "thread", t)) = 1
        /\ \A user \in Users : create_thread_pledge_code(user, t, 1) # 201

\* Number of rows of a sequence that carry the given person and amount
TimesIn(rows, person, amount) ==
    Cardinality({i \in 1..Len(rows) : rows[i] = <<person, amount>>})

\* The ledger entries of a deal name the same (person, amount) pairs, each as
\* many times, as its pledges, and add up to the pledged total
LedgerMatchesPledges(deal_type, deal_id, deal) ==
    LET owed == EntriesOf(balanceEntries, deal_type, deal_id)
    IN /\ \A person \in Users, amount \in 1..MaxTarget :
              TimesIn(Debts(owed), person, amount) = TimesIn(Dues(deal.pledges), person, amount)
       /\ \A i \in 1..Len(owed) : owed[i].payer_id \in Users /\ owed[i].amount \in 1..MaxTarget
       /\ SumAmounts(owed) = PledgedTotal(deal)

\* C32: for every existing deal that has a Deal Lock, in every state, the
\* multiset of (payer, amount) over its ledger entries equals the multiset of
\* (supporter, amount) over its pledges, and the ledger amounts add up to the
\* pledged total.
C32_LedgerNeverDrifts ==
    /\ \A t \in DOMAIN threads :
           LocksOf(dealLocks, "thread", t) # {} => LedgerMatchesPledges("thread", t, threads[t])
    /\ \A r \in DOMAIN requests :
           LocksOf(dealLocks, "reverse", r) # {} => LedgerMatchesPledges("reverse", r, requests[r])

\* A settled deal with two pledges of different people and amounts, one of
\* whose ledger entries has since been acknowledged by the payee.
C32_Witness ==
    \E deal_type \in DealTypes, deal_id \in 1..MaxDeals :
        LET deals == IF deal_type = "thread" THEN threads ELSE requests
            owed == EntriesOf(balanceEntries, deal_type, deal_id)
        IN /\ deal_id \in DOMAIN deals
           /\ LocksOf(dealLocks, deal_type, deal_id) # {}
           /\ Len(deals[deal_id].pledges) = 2
           /\ deals[deal_id].pledges[1].supporter_id # deals[deal_id].pledges[2].supporter_id
           /\ deals[deal_id].pledges[1].amount # deals[deal_id].pledges[2].amount
           /\ Len(owed) = 2
           /\ \E i \in 1..2 : owed[i].status = "received_declared"

\* C33: when two pledge requests on one open thread have both finished, each
\* having found its amount within the remaining capacity it read, the sum of
\* the thread's pledge amounts does not exceed the target amount.
C33_CeilingUnderInterleaving ==
    (\A w \in Workers : sessions[w].pc = "done") =>
        \A t \in DOMAIN threads : PledgedTotal(threads[t]) <= threads[t].target_amount

\* The amount fits what is left under the lowest active ask of the request
\* (anything fits while there is no bid)
FitsRemaining(req, amount) ==
    \A i \in lowest_active_bid(req.bids) :
        amount <= req.bids[i].ask_amount - PledgedTotal(req)

\* C34: on a group or specific reverse request that is open, a signed-in
\* actor the Audience Gate denies is refused every bid (403), while every
\* signed-in actor, denied or not, has a pledge accepted (201) when its amount
\* is at least 1 and fits the remaining capacity; when the request closes,
\* every actor who pledged, denied for bidding or not, is the payer of a
\* ledger entry of the request.
C34_Gate ==
    \A r \in DOMAIN requests, user \in Users :
        (requests[r].audience_mode \in {"group", "specific"} /\ requests[r].status = "open") =>
            /\ ~reverse_user_allowed_to_bid(requests[r], user) =>
                   \A ask_amount \in 1..MaxAmount : create_or_update_bid_code(user, r, ask_amount) = 403
            /\ \A amount \in 1..MaxAmount :
                   FitsRemaining(requests[r], amount) => create_reverse_pledge_code(user, r, amount) = 201

C34_Steps ==
    \A r \in DOMAIN requests :
        (/\ requests[r].audience_mode \in {"group", "specific"}
         /\ requests[r].status = "open"
         /\ r \in DOMAIN requests'
         /\ requests[r].status' = "closed") =>
            \A i \in 1..Len(requests[r].pledges') :
                \E j \in 1..Len(balanceEntries') :
                    /\ balanceEntries[j].deal_type' = "reverse"
                    /\ balanceEntries[j].deal_id' = r
                    /\ balanceEntries[j].payer_id' = requests[r].pledges[i].supporter_id'
                    /\ balanceEntries[j].amount' = requests[r].pledges[i].amount'

C34_GateOnBidsNotPledges == []C34_Gate /\ [][C34_Steps]_vars

\* A closed group or specific request whose ledger names as payer an actor
\* the gate denies for bidding.
C34_Witness ==
    \E r \in DOMAIN requests, user \in Users :
        /\ requests[r].audience_mode \in {"group", "specific"}
        /\ requests[r].status = "closed"
        /\ ~reverse_user_allowed_to_bid(requests[r], user)
        /\ \E i \in 1..Len(requests[r].pledges) : requests[r].pledges[i].supporter_id = user
        /\ \E j \in 1..Len(balanceEntries) :
               /\ balanceEntries[j].deal_type = "reverse"
               /\ balanceEntries[j].deal_id = r
               /\ balanceEntries[j].payer_id = user

\* C2: when two pledge requests on one thread have both finished, the thread
\* has at most one Deal Lock, and if it has one then exactly one ledger entry
\* per recorded pledge.
C2_ConcurrentPledges ==
    (\A w \in Workers : sessions[w].pc = "done") =>
        \A t \in DOMAIN threads :
            /\ Cardinality(LocksOf(dealLocks, "thread", t)) <= 1
            /\ LocksOf(dealLocks, "thread", t) # {} =>
                   Len(EntriesOf(balanceEntries, "thread", t)) = Len(threads[t].pledges)

====
